---------------------------- MODULE Spec2Model ----------------------------
(***************************************************************************)
(* A model of the polynomial-ring arithmetic core of openfhe-development-rs *)
(* (src/src/core): the ring element Poly with its modular vector VecMod,    *)
(* the NTT used by Poly multiplication, the RNS parameter chain             *)
(* DcrtElementParams with its builder, and the number theory they call.     *)
(*                                                                         *)
(* Machine integers.  The code works on 64-bit words (u64, usize, U64) and  *)
(* on moduli of at most MAX_MODULUS_SIZE = 60 bits.  TLC's integers are 32  *)
(* bits wide, so the word is modelled WordBits wide and the generated       *)
(* primes MAX_MODULUS_SIZE bits wide, with the same relation as in the      *)
(* code: one generated prime fits a word, the product of two does not.      *)
(***************************************************************************)
EXTENDS Integers, Sequences, FiniteSets, TLC

VARIABLES
    poly,      \* the Poly the operations act on (self)
    prev,      \* self as it was before the last operation
    op,        \* the last operation and its arguments
    fault,     \* "none", or the panic that stopped the program
    steps,     \* number of operations applied so far
    profile,   \* the build: "debug" (overflow checks, debug_assert) or "release"
    builder,   \* DcrtElementParamsBuilder: its seven optional fields and the order
    chain,     \* DcrtElementParams: params (the limbs) and ciphertext_composite_modulus
    built,     \* how build ended: status "no" before it, then "ok", "err" or "panic"
    vec,       \* the VecMod that switch_modulus acts on
    origin,    \* the Poly and the VecMod a run of modulus switches started from
    trail      \* the modulus switches applied so far, oldest first

vars == <<poly, prev, op, fault, steps, profile, builder, chain, built, vec, origin, trail>>

-----------------------------------------------------------------------------
(* Bounds of the model *)

\* width of the machine word standing for the 64 bits of u64 / usize / U64
WordBits == 8
\* bits of a generated prime, standing for constants.rs MAX_MODULUS_SIZE = 60
MAX_MODULUS_SIZE == 6
\* operations applied to one Poly in a run
MaxOps == 2
\* largest target depth handed to the builder
MaxDepth == 2

-----------------------------------------------------------------------------
(* Integers and words *)

RECURSIVE Pow2(_)
Pow2(n) == IF n = 0 THEN 1 ELSE 2 * Pow2(n - 1)

Word == Pow2(WordBits)

Min(a, b) == IF a < b THEN a ELSE b

RECURSIVE BitLen(_)
\* number of significant bits: Uint::bits, usize::BITS - leading_zeros
BitLen(n) == IF n = 0 THEN 0 ELSE 1 + BitLen(n \div 2)

IsPowerOfTwo(n) == n > 0 /\ Pow2(BitLen(n) - 1) = n

RECURSIVE RevBits(_, _, _)
\* the low `bits` bits of x in reverse order, accumulated into acc
RevBits(x, bits, acc) ==
    IF bits = 0 THEN acc
    ELSE RevBits(x \div 2, bits - 1, 2 * acc + (x % 2))

\* usize::reverse_bits: reverses all the bits of the machine word
usize_reverse_bits(i) == RevBits(i, WordBits, 0)

RECURSIVE Gcd(_, _)
Gcd(a, b) == IF b = 0 THEN a ELSE Gcd(b, a % b)

IsPrime(n) == n >= 2 /\ \A d \in 2..(n - 1) : d * d > n \/ n % d # 0

RECURSIVE PowMod(_, _, _)
\* exact modular power, as MontyForm::pow (no intermediate overflow)
PowMod(b, e, q) ==
    IF e = 0 THEN 1 % q
    ELSE LET h == PowMod(b, e \div 2, q)
             s == (h * h) % q
         IN IF e % 2 = 1 THEN (s * (b % q)) % q ELSE s

\* MontyForm::inv / inv_odd_mod: defined exactly when gcd(a, q) = 1
HasInv(a, q) == Gcd(a % q, q) = 1
InvMod(a, q) == IF q = 1 THEN 0 ELSE CHOOSE x \in 0..(q - 1) : (x * (a % q)) % q = 1

SeqOf(len, v) == [i \in 1..len |-> v]

-----------------------------------------------------------------------------
(* VecMod: values sharing one odd modulus (vec_mod.rs).  A VecMod is the    *)
(* record [values, params], params being the modulus of its MontyParams.    *)
(* Rust index i is index i + 1 of the sequence.                             *)

VecModOf(vals, modulus) == [values |-> vals, params |-> modulus]

\* VecMod::with_value_uint
with_value_uint(len, value, modulus) == VecModOf(SeqOf(len, value % modulus), modulus)

\* Uint::add_mod: one conditional subtraction of the modulus
add_mod(x, c, m) == IF x + c >= m THEN (x + c - m) % Word ELSE (x + c) % Word

\* Uint::sub_mod: one conditional addition of the modulus
sub_mod(x, c, m) == IF x >= c THEN x - c ELSE (x - c + m) % Word

\* Uint::mul_mod: the wide product reduced
mul_mod(x, c, m) == (x * c) % m

VecOk(v) == [fault |-> "none", vec |-> v]
VecPanic(msg, v) == [fault |-> msg, vec |-> v]

\* impl AddAssign<&VecMod> for VecMod
vec_add_assign(self, rhs) ==
    IF self.params # rhs.params THEN VecPanic("assert_eq params", self)
    ELSE VecOk([self EXCEPT !.values =
            [i \in 1..Len(self.values) |->
                IF i <= Len(rhs.values)
                THEN add_mod(self.values[i], rhs.values[i], self.params)
                ELSE self.values[i]]])

\* impl SubAssign<&VecMod> for VecMod
vec_sub_assign(self, rhs) ==
    IF self.params # rhs.params THEN VecPanic("assert_eq params", self)
    ELSE VecOk([self EXCEPT !.values =
            [i \in 1..Len(self.values) |->
                IF i <= Len(rhs.values)
                THEN sub_mod(self.values[i], rhs.values[i], self.params)
                ELSE self.values[i]]])

\* impl SubAssign<&Uint> for VecMod
vec_sub_scalar(self, rhs) ==
    [self EXCEPT !.values = [i \in 1..Len(self.values) |-> sub_mod(self.values[i], rhs, self.params)]]

\* impl MulAssign<&Uint> for VecMod
vec_mul_scalar(self, rhs) ==
    [self EXCEPT !.values = [i \in 1..Len(self.values) |-> mul_mod(self.values[i], rhs, self.params)]]

\* a plain reduction, without the shift of the negative residues
rem_entry_dropped_shift(x, old_modulus, new_modulus) == x % new_modulus

\* the value one entry takes in RemAssign; a value >= Word stands for the
\* overflow of the checked `*x += diff`
rem_entry(x, old_modulus, new_modulus) ==
    LET half_q == old_modulus \div 2
    IN IF new_modulus > old_modulus
       THEN LET diff == new_modulus - old_modulus
            IN IF x > half_q THEN x + diff ELSE x
       ELSE LET diff == new_modulus - (old_modulus % new_modulus)
                x1 == IF x > half_q THEN x + diff ELSE x
            IN IF x1 >= new_modulus /\ x1 < Word THEN x1 % new_modulus ELSE x1

\* impl RemAssign<&Odd<Uint>> for VecMod: the centered-residue rule; the
\* modulus of the vector is left as it was.  `*x += diff` is a checked add.
vec_rem_assign(self, modulus) ==
    LET new_values == [i \in 1..Len(self.values) |-> rem_entry(self.values[i], self.params, modulus)]
    IN IF \E i \in 1..Len(self.values) : new_values[i] >= Word
       THEN VecPanic("attempted to add with overflow", self)
       ELSE VecOk([self EXCEPT !.values = new_values])

\* VecMod::switch_modulus
vec_switch_modulus(self, modulus) ==
    LET r == vec_rem_assign(self, modulus)
    IN IF r.fault # "none" THEN r
       ELSE VecOk([r.vec EXCEPT !.params = modulus])

\* VecMod::rem_mod_2_assign: 1 & (x ^ bit), bit = 1 for a negative residue
vec_rem_mod_2(self) ==
    LET half_q == self.params \div 2
    IN [self EXCEPT !.values =
            [i \in 1..Len(self.values) |->
                LET x == self.values[i]
                    bit == IF x > half_q THEN 1 ELSE 0
                IN ((x % 2) + bit) % 2]]

\* VecMod::inverse with the test for a zero entry left out
vec_inverse_untested(self) ==
    IF \E i \in 1..Len(self.values) : ~HasInv(self.values[i], self.params)
    THEN [some |-> FALSE, fault |-> "to not fail since i is not zero", vec |-> self]
    ELSE [some |-> TRUE, fault |-> "none",
          vec |-> [self EXCEPT !.values =
                     [i \in 1..Len(self.values) |-> InvMod(self.values[i], self.params)]]]

\* VecMod::inverse
vec_inverse(self) ==
    IF \E i \in 1..Len(self.values) : self.values[i] = 0
    THEN [some |-> FALSE, fault |-> "none", vec |-> self]
    ELSE IF \E i \in 1..Len(self.values) : ~HasInv(self.values[i], self.params)
    THEN [some |-> FALSE, fault |-> "to not fail since i is not zero", vec |-> self]
    ELSE [some |-> TRUE, fault |-> "none",
          vec |-> [self EXCEPT !.values =
                     [i \in 1..Len(self.values) |-> InvMod(self.values[i], self.params)]]]

-----------------------------------------------------------------------------
(* Number theory used when parameters are built (utils.rs) *)

RECURSIVE FactorsFrom(_, _)
\* the prime factors of n that are >= d, ascending, with multiplicity
FactorsFrom(n, d) ==
    IF n < 2 THEN <<>>
    ELSE IF d * d > n THEN <<n>>
    ELSE IF n % d = 0 THEN <<d>> \o FactorsFrom(n \div d, d)
    ELSE FactorsFrom(n, d + 1)

\* prime_factorization::Factorization::run(n).factors
Factors(n) == FactorsFrom(n, 2)

RECURSIVE TotientFold(_, _, _, _)
TotientFold(factors, i, numerator, prime_prod) ==
    IF i > Len(factors) THEN <<numerator, prime_prod>>
    ELSE TotientFold(factors, i + 1, numerator * factors[i] - 1, prime_prod * factors[i])

\* get_totient: numerator = numerator * r - 1 and prime_prod *= r over the factors
get_totient(n) ==
    LET f == TotientFold(Factors(n), 1, 1, 1)
    IN (n \div f[2]) * f[1]

\* a result of a u64 computation: [fault, val]
Val(v) == [fault |-> "none", val |-> v]
Fail(msg) == [fault |-> msg, val |-> 0]

RECURSIVE mod_pow_loop(_, _, _, _, _)
\* while exponent > 0: tmp = (result * base) % modulus is computed in every
\* round and assigned when the low bit is set; base = (base * base) % modulus.
\* The products are u64 products: an overflow panics in a debug build and
\* wraps in a release build.
mod_pow_loop(result, base, exponent, modulus, prof) ==
    IF exponent = 0 THEN Val(result)
    ELSE IF prof = "debug" /\ (result * base >= Word \/ base * base >= Word)
    THEN Fail("attempt to multiply with overflow")
    ELSE LET tmp == ((result * base) % Word) % modulus
         IN mod_pow_loop(IF exponent % 2 = 1 THEN tmp ELSE result,
                         ((base * base) % Word) % modulus,
                         exponent \div 2, modulus, prof)

\* mod_pow
mod_pow(base, exponent, modulus, prof) ==
    IF modulus = 1 THEN Val(0)
    ELSE mod_pow_loop(1, base % modulus, exponent, modulus, prof)

\* compute_mu: u128::MAX / modulus + 1
compute_mu(modulus) == ((Word * Word - 1) \div modulus) + 1

RECURSIVE barrett_correct(_, _)
\* while result >= modulus { result = result.wrapping_sub(modulus) }
barrett_correct(result, modulus) ==
    IF result >= modulus THEN barrett_correct(result - modulus, modulus) ELSE result

\* barrett_reduction, the quotient estimate tmp1 computed on the two words
\* of a and of mu
barrett_quotient(a, modulus, mu) ==
    LET a_lo == a % Word
        a_hi == a \div Word
        mu_lo == mu % Word
        mu_hi == (mu \div Word) % Word
        left_hi0 == (a_lo * mu_lo) \div Word
        middle1 == a_lo * mu_hi
        sum1 == (middle1 % Word) + left_hi0
        tmp1a == sum1 % Word
        tmp2 == ((middle1 \div Word) + (IF sum1 >= Word THEN 1 ELSE 0)) % Word
        middle2 == a_hi * mu_lo
        carry2 == IF (middle2 % Word) + tmp1a >= Word THEN 1 ELSE 0
        left_hi == ((middle2 \div Word) + carry2) % Word
    IN (((a_hi * mu_hi) % Word) + tmp2 + left_hi) % Word

\* let mut result = a_lo.wrapping_sub(tmp1.wrapping_mul(modulus))
barrett_uncorrected(a, modulus, mu) ==
    ((a % Word) + Word * Word - ((barrett_quotient(a, modulus, mu) * modulus) % Word)) % Word

\* barrett_reduction
barrett_reduction(a, modulus, mu) ==
    barrett_correct(barrett_uncorrected(a, modulus, mu), modulus)

\* mod_mul_eq
mod_mul_eq(a, b, modulus, mu) == barrett_reduction(a * b, modulus, mu)

RECURSIVE is_generator_loop(_, _, _, _, _)
\* for r in factors { cnt += 1; if mod_pow(g, qm1 / r, q) == 1 { break } };
\* cnt == factors.len()
is_generator_loop(generator, modulus, factors, i, prof) ==
    IF i > Len(factors) THEN Val(TRUE)
    ELSE LET r == mod_pow(generator, (modulus - 1) \div factors[i], modulus, prof)
         IN IF r.fault # "none" THEN [fault |-> r.fault, val |-> FALSE]
            ELSE IF r.val = 1 THEN Val(i = Len(factors))
            ELSE is_generator_loop(generator, modulus, factors, i + 1, prof)

\* is_generator
is_generator(generator, modulus, prof) ==
    is_generator_loop(generator, modulus, Factors(modulus - 1), 1, prof)

\* find_generator: g = random % (modulus - 2) + 1 until is_generator(g).  The
\* outcomes: each accepted g, the panic of a g whose test panics, and no
\* return at all when no g is accepted and none panics.
find_generator(modulus, prof) ==
    IF modulus = 2 THEN {Fail("remainder with a divisor of zero")}
    ELSE LET tests == { <<g, is_generator(g, modulus, prof)>> : g \in 1..(modulus - 2) }
             accepted == { t[1] : t \in { u \in tests : u[2] = Val(TRUE) } }
             panics == { t[2].fault : t \in tests } \ {"none"}
         IN { Val(g) : g \in accepted } \cup { Fail(f) : f \in panics } \cup
            { Fail("find_generator does not return") : x \in {y \in {1} : accepted = {} /\ panics = {}} }

\* get_coprimes, ascending
get_coprimes(n) == { i \in 1..(n - 1) : Gcd(i, n) = 1 }

RECURSIVE min_ru_scan(_, _, _, _, _, _, _)
\* for next_pow_idx in co_primes: x = x * result^(next - cur); keep the least
\* x other than 1; idx runs over 1..n-1 and the coprime ones are visited
min_ru_scan(x, min_ru, idx, n, result, m, mu) ==
    IF idx >= n THEN min_ru
    ELSE LET x1 == IF idx = 1 THEN x ELSE mod_mul_eq(x, result, m, mu)
         IN IF idx \in get_coprimes(n)
            THEN min_ru_scan(x1, IF x1 < min_ru /\ x1 # 1 THEN x1 ELSE min_ru, idx + 1, n, result, m, mu)
            ELSE min_ru_scan(x1, min_ru, idx + 1, n, result, m, mu)

\* root_of_unity: the set of its outcomes over the generators the search finds
root_of_unity(cyclotomic_order, modulus, prof) ==
    IF ~IsPowerOfTwo(cyclotomic_order) THEN {Fail("cyclotomic_order must be a power of two")}
    ELSE IF ~IsPrime(modulus) THEN {Fail("modulus must be a prime number")}
    ELSE IF (modulus - 1) % cyclotomic_order # 0 THEN {Fail("(q-1)/m is not an integer")}
    ELSE { IF g.fault # "none" THEN g
           ELSE LET result == mod_pow(g.val, (modulus - 1) \div cyclotomic_order, modulus, prof)
                    mu == compute_mu(modulus)
                IN IF result.fault # "none" THEN result
                   ELSE LET x == mod_mul_eq(1, result.val, modulus, mu)
                        IN Val(min_ru_scan(x, x, 1, cyclotomic_order, result.val, modulus, mu))
         : g \in find_generator(modulus, prof) }

-----------------------------------------------------------------------------
(* ElementParams and Poly (params.rs, poly.rs) *)

Evaluation == "Evaluation"
Coefficient == "Coefficient"

ElementParamsOf(rd, order, q, root, bigq, bigroot) ==
    [ring_dimension |-> rd, cyclotomic_order |-> order,
     ciphertext_modulus |-> q, root_of_unity |-> root,
     big_ciphertext_modulus |-> bigq, big_root_of_unity |-> bigroot]

\* ElementParams::with_big_ciphertext_params
with_big_ciphertext_params(order, q, root, bigq, bigroot) ==
    ElementParamsOf(get_totient(order), order, q, root, bigq, bigroot)

\* ElementParams::with_ciphertext_root_of_unity
with_ciphertext_root_of_unity(order, q, root) ==
    with_big_ciphertext_params(order, q, root, 1, 0)

PolyOf(format, params, values) ==
    [format |-> format, params |-> params, values |-> values,
     monty_params_ciphertext_modulus |-> params.ciphertext_modulus,
     monty_params_big_ciphertext_modulus |-> params.big_ciphertext_modulus]

\* Poly::zero
PolyZero(params) ==
    PolyOf(Evaluation, params,
           with_value_uint(params.cyclotomic_order, 0, params.ciphertext_modulus))

\* Poly::max
PolyMax(params) ==
    PolyOf(Evaluation, params,
           with_value_uint(params.cyclotomic_order, params.ciphertext_modulus - 1,
                           params.ciphertext_modulus))

\* DiscreteGaussian::gen_vec_mod: a sample i < 0 is stored as modulus - |i|
gen_vec_mod(samples, modulus) ==
    VecModOf([i \in 1..Len(samples) |->
                IF samples[i] < 0 THEN modulus - (0 - samples[i]) ELSE samples[i]],
             modulus)

\* Poly::discrete_gaussian: ring_dimension samples, Coefficient format whatever
\* the format asked for (set_format is commented out)
PolyDiscreteGaussian(params, samples) ==
    PolyOf(Coefficient, params, gen_vec_mod(samples, params.ciphertext_modulus))

Ok(p) == [fault |-> "none", poly |-> p]
Panic(msg, p) == [fault |-> msg, poly |-> p]

\* MontyForm::new(v, params).retrieve(): the residue of v
Monty(v, q) == v % q

\* impl Neg for &Poly
poly_neg(self) ==
    LET q == self.monty_params_ciphertext_modulus
    IN Ok([self EXCEPT !.values.values =
            [i \in 1..Len(self.values.values) |-> (q - Monty(self.values.values[i], q)) % q]])

\* impl AddAssign<&U64> for Poly: values[0] alone in Coefficient format
poly_add_scalar(self, rhs) ==
    LET q == self.monty_params_ciphertext_modulus
        r == Monty(rhs, q)
        v == self.values.values
    IN IF self.format = Coefficient
       THEN IF Len(v) = 0 THEN Panic("index out of bounds", self)
            ELSE Ok([self EXCEPT !.values.values[1] = (Monty(v[1], q) + r) % q])
       ELSE Ok([self EXCEPT !.values.values =
                  [i \in 1..Len(v) |-> (Monty(v[i], q) + r) % q]])

\* impl SubAssign<&U64> for Poly
poly_sub_scalar(self, rhs) == Ok([self EXCEPT !.values = vec_sub_scalar(self.values, rhs)])

\* impl MulAssign<&U64> for Poly
poly_mul_scalar(self, rhs) == Ok([self EXCEPT !.values = vec_mul_scalar(self.values, rhs)])

\* impl DivAssign<&U64> for Poly
poly_div_scalar(self, rhs) ==
    LET q == self.monty_params_ciphertext_modulus
        v == self.values.values
    IN IF ~HasInv(rhs, q) \/ q = 1 THEN Panic("r is not zero", self)
       ELSE Ok([self EXCEPT !.values.values =
                  [i \in 1..Len(v) |-> (Monty(v[i], q) * InvMod(rhs, q)) % q]])

\* impl RemAssign<&Odd<U64>> for Poly
poly_rem(self, modulus) ==
    LET r == vec_rem_assign(self.values, modulus)
    IN IF r.fault # "none" THEN Panic(r.fault, self)
       ELSE Ok([self EXCEPT !.values = r.vec])

\* impl AddAssign<&Poly> for Poly
poly_add(self, rhs) ==
    IF self.params # rhs.params THEN Panic("assert_eq params", self)
    ELSE IF self.format # rhs.format THEN Panic("assert_eq format", self)
    ELSE LET r == vec_add_assign(self.values, rhs.values)
         IN IF r.fault # "none" THEN Panic(r.fault, self)
            ELSE Ok([self EXCEPT !.values = r.vec])

\* impl SubAssign<&Poly> for Poly
poly_sub(self, rhs) ==
    IF self.params # rhs.params THEN Panic("assert_eq params", self)
    ELSE IF self.format # rhs.format THEN Panic("assert_eq format", self)
    ELSE LET r == vec_sub_assign(self.values, rhs.values)
         IN IF r.fault # "none" THEN Panic(r.fault, self)
            ELSE Ok([self EXCEPT !.values = r.vec])

-----------------------------------------------------------------------------
(* The NTT of Poly multiplication (poly.rs: ntt, bit_reverse_permutation,   *)
(* NttPoly).  A transform yields [fault, values].                           *)

NttOk(v) == [fault |-> "none", values |-> v]
NttPanic(msg, v) == [fault |-> msg, values |-> v]

Swap(v, a, b) == [v EXCEPT ![a] = v[b], ![b] = v[a]]

\* the index bit_reverse_permutation pairs with i: i.reverse_bits(); the
\* bit count of the length n is computed there and not used
bit_reverse_index(i, n) == usize_reverse_bits(i)

RECURSIVE bit_reverse_from(_, _)
\* the loop of bit_reverse_permutation from index i on; values.swap(i, rev)
\* panics when rev is not an index of the slice
bit_reverse_from(v, i) ==
    IF i >= Len(v) THEN NttOk(v)
    ELSE LET rev == bit_reverse_index(i, Len(v))
         IN IF i < rev
            THEN IF rev >= Len(v) THEN NttPanic("index out of bounds", v)
                 ELSE bit_reverse_from(Swap(v, i + 1, rev + 1), i + 1)
            ELSE bit_reverse_from(v, i + 1)

\* bit_reverse_permutation
bit_reverse_permutation(v) == bit_reverse_from(v, 0)

RECURSIVE butterflies(_, _, _, _, _, _, _, _)
\* for k in (0..order).step_by(2 * half_m) { for j in 0..half_m { ... } }
butterflies(v, order, q, omega_m, half_m, k, j, omega) ==
    IF k >= order THEN NttOk(v)
    ELSE IF j >= half_m THEN butterflies(v, order, q, omega_m, half_m, k + 2 * half_m, 0, 1 % q)
    ELSE LET a == k + j + 1
             b == k + j + half_m + 1
         IN IF b > Len(v) THEN NttPanic("index out of bounds", v)
            ELSE LET t == (omega * v[b]) % q
                     w == [v EXCEPT ![b] = (v[a] + q - t) % q, ![a] = (v[a] + t) % q]
                 IN butterflies(w, order, q, omega_m, half_m, k, j + 1, (omega * omega_m) % q)

RECURSIVE ntt_stages(_, _, _, _, _)
\* while m < cyclotomic_order { half_m = m; m <<= 1; omega_m = root^(order / m); ... }
ntt_stages(v, order, q, root, m) ==
    IF m >= order THEN NttOk(v)
    ELSE LET omega_m == PowMod(root, order \div (2 * m), q)
             r == butterflies(v, order, q, omega_m, m, 0, 0, 1 % q)
         IN IF r.fault # "none" THEN r
            ELSE ntt_stages(r.values, order, q, root, 2 * m)

\* Poly::ntt: the values of the NttPoly (format, params and MontyParams are
\* those of self)
poly_ntt(self) ==
    LET q == self.monty_params_ciphertext_modulus
        v == [i \in 1..Len(self.values.values) |-> Monty(self.values.values[i], q)]
        r == bit_reverse_permutation(v)
    IN IF r.fault # "none" THEN r
       ELSE ntt_stages(r.values, self.params.cyclotomic_order, q,
                       Monty(self.params.root_of_unity, q), 1)

\* NttPoly::inv on the values `values` of an NttPoly carrying self's fields
nttpoly_inv(self, values) ==
    LET q == self.monty_params_ciphertext_modulus
        root == Monty(self.params.root_of_unity, q)
        order == self.params.cyclotomic_order
    IN IF ~HasInv(root, q) \/ q = 1 THEN Panic("root of unity is not zero", self)
       ELSE LET r == bit_reverse_permutation(values)
            IN IF r.fault # "none" THEN Panic(r.fault, self)
               ELSE LET t == ntt_stages(r.values, order, q, InvMod(root, q), 1)
                    IN IF t.fault # "none" THEN Panic(t.fault, self)
                       ELSE IF ~HasInv(order, q) THEN Panic("n is not zero", self)
                       ELSE Ok([self EXCEPT !.values =
                                 VecModOf([i \in 1..Len(t.values) |->
                                             (t.values[i] * InvMod(order, q)) % q], q)])

\* MontyForm *= MontyForm for residues l (mod lq) and r (mod rq): the operator
\* debug_asserts equal params; without the assertion the Montgomery product
\* is taken under lq of r's Montgomery form r * 2^WordBits mod rq
monty_mul(l, lq, r, rq) ==
    IF lq = rq THEN (l * r) % lq
    ELSE (l * ((r * Word) % rq) * InvMod(Word, lq)) % lq

\* impl MulAssign<&Poly> for Poly: *self = (self.ntt() * rhs.ntt()).inv()
poly_mul(self, rhs, prof) ==
    LET a == poly_ntt(self)
        b == poly_ntt(rhs)
        lq == self.monty_params_ciphertext_modulus
        rq == rhs.monty_params_ciphertext_modulus
    IN IF a.fault # "none" THEN Panic(a.fault, self)
       ELSE IF b.fault # "none" THEN Panic(b.fault, self)
       ELSE IF lq # rq /\ prof = "debug" /\ Len(a.values) > 0 /\ Len(b.values) > 0
       THEN Panic("debug_assert_eq params", self)
       ELSE nttpoly_inv(self,
                [i \in 1..Len(a.values) |->
                    IF i <= Len(b.values)
                    THEN monty_mul(a.values[i], lq, b.values[i], rq)
                    ELSE a.values[i]])

-----------------------------------------------------------------------------
(* The other value-changing operations of Poly (poly.rs) *)

\* core::utils::reverse_bits(x, bits): the low `bits` bits of x reversed
reverse_bits(x, bits) == RevBits(x % Pow2(bits), bits, 0)

RECURSIVE automorphism_eval(_, _, _, _, _, _, _)
\* Evaluation branch: for j in 1..ring_dimension, jk = k, 3k, 5k, ...
automorphism_eval(self, result, k, log_n, mask, j, jk) ==
    IF j >= self.params.ring_dimension THEN Ok(result)
    ELSE LET jrev == reverse_bits(j, log_n)
             idxrev == reverse_bits((jk \div 2) % (mask + 1), log_n)
         IN IF idxrev >= Len(self.values.values) \/ jrev >= Len(result.values.values)
            THEN Panic("index out of bounds", self)
            ELSE automorphism_eval(self,
                    [result EXCEPT !.values.values[jrev + 1] = self.values.values[idxrev + 1]],
                    k, log_n, mask, j + 1, jk + 2 * k)

\* the coefficient written for a negated position: modulus - value, a
\* checked subtraction that is not reduced
negated(modulus, v) == modulus - v

RECURSIVE automorphism_coef(_, _, _, _, _, _, _)
\* Coefficient branch: for j in 1..ring_dimension, jk = 0, k, 2k, ...
automorphism_coef(self, result, k, log_n, mask, j, jk) ==
    IF j >= self.params.ring_dimension THEN Ok(result)
    ELSE LET idx == jk % (mask + 1)
             modulus == self.params.ciphertext_modulus
         IN IF j >= Len(self.values.values) \/ idx >= Len(result.values.values)
            THEN Panic("index out of bounds", self)
            ELSE IF (jk \div Pow2(log_n)) % 2 = 1 /\ self.values.values[j + 1] > modulus
            THEN Panic("attempted to subtract with underflow", self)
            ELSE automorphism_coef(self,
                    [result EXCEPT !.values.values[idx + 1] =
                        IF (jk \div Pow2(log_n)) % 2 = 1
                        THEN negated(modulus, self.values.values[j + 1])
                        ELSE self.values.values[j + 1]],
                    k, log_n, mask, j + 1, jk + k)

\* Poly::automorphism_transform
automorphism_transform(self, k) ==
    IF k % 2 # 1 THEN Panic("k must be odd", self)
    ELSE IF ~IsPowerOfTwo(self.params.cyclotomic_order)
    THEN Panic("power of two cyclotomic rings only", self)
    ELSE LET log_m == BitLen(self.params.cyclotomic_order)
             log_n == log_m - 1
             mask == Pow2(log_n) - 1
         IN IF self.format = Evaluation
            THEN automorphism_eval(self, self, k, log_n, mask, 1, k)
            ELSE automorphism_coef(self, self, k, log_n, mask, 1, 0)

\* Poly::make_sparse
make_sparse(self, w_factor) ==
    IF w_factor = 0 /\ Len(self.values.values) > 0
    THEN Panic("remainder with a divisor of zero", self)
    ELSE Ok([self EXCEPT !.values.values =
               [i \in 1..Len(self.values.values) |->
                   IF (i - 1) % w_factor # 0 THEN 0 ELSE self.values.values[i]]])

\* Poly::mod_2
mod_2(self) == Ok([self EXCEPT !.values = vec_rem_mod_2(self.values)])

\* Poly::set_values
set_values(self, vals) ==
    Ok([self EXCEPT !.values.values =
          [i \in 1..Len(self.values.values) |->
              IF i <= Len(vals) THEN vals[i] % self.params.ciphertext_modulus
              ELSE self.values.values[i]]])

\* Poly::set_zero
set_zero(self) == Ok([self EXCEPT !.values.values = SeqOf(Len(self.values.values), 0)])

\* Poly::set_max
set_max(self) ==
    Ok([self EXCEPT !.values.values =
          SeqOf(Len(self.values.values), self.params.ciphertext_modulus - 1)])

\* Poly::switch_modulus: params and both MontyParams are replaced and every
\* value is reduced with `%`; the modulus inside values is not touched
switch_modulus(self, modulus, root, modulus_arb, root_arb) ==
    Ok([self EXCEPT
          !.params.ciphertext_modulus = modulus,
          !.params.root_of_unity = root,
          !.params.big_ciphertext_modulus = modulus_arb,
          !.params.big_root_of_unity = root_arb,
          !.monty_params_ciphertext_modulus = modulus,
          !.monty_params_big_ciphertext_modulus = modulus_arb,
          !.values.values = [i \in 1..Len(self.values.values) |->
                                self.values.values[i] % modulus]])

-----------------------------------------------------------------------------
(* Specification SpecPoly: a Poly is constructed and at most MaxOps of its   *)
(* operations are applied to it.  A panic ends the run.                      *)

\* <<cyclotomic_order, ciphertext_modulus, root_of_unity>>, the root a
\* primitive cyclotomic_order-th root of unity modulo the prime modulus
RingChoices == {<<1, 5, 1>>, <<2, 5, 4>>, <<4, 5, 2>>, <<8, 17, 2>>}

\* ElementParams as with_ciphertext_root_of_unity builds them, and with the
\* ring dimension cyclotomic_order / 2 set through the public field
PolyParams ==
    UNION { { with_ciphertext_root_of_unity(c[1], c[2], c[3]) } \cup
            { [with_ciphertext_root_of_unity(c[1], c[2], c[3])
                  EXCEPT !.ring_dimension = c[1] \div 2] : x \in {y \in {1} : c[1] >= 2} }
          : c \in RingChoices }

\* what the sampler hands to gen_vec_mod
GaussianSamples(len) == { SeqOf(len, c) : c \in {-1, 0, 1} }

\* the Polys the three constructors give for params
PolysOf(params) ==
    {PolyZero(params), PolyMax(params)} \cup
    { PolyDiscreteGaussian(params, sm) : sm \in GaussianSamples(params.ring_dimension) }

PolyInits == UNION { PolysOf(params) : params \in PolyParams }

\* right operands: the Polys of the same params, and two of other rings
RhsChoices(self) ==
    { r \in PolyInits : r.params = self.params } \cup
    { PolyMax(with_ciphertext_root_of_unity(1, 5, 1)),
      PolyMax(with_ciphertext_root_of_unity(1, 17, 1)) }

\* scalar arguments, all below the modulus
Scalars(self) == {0, 1, self.params.ciphertext_modulus - 1}

\* odd moduli handed to `%` and to switch_modulus
OddModuli == {3, 5, 13, 17, 41}

\* the least primitive order-th root of unity modulo q, 0 when there is none
MinRoot(order, q) ==
    LET roots == { r \in 1..(q - 1) :
                     /\ PowMod(r, order, q) = 1
                     /\ \A e \in 1..(order - 1) : PowMod(r, e, q) # 1 }
    IN IF roots = {} THEN 0 ELSE CHOOSE r \in roots : \A o \in roots : r <= o

NoPoly == PolyOf(Evaluation, ElementParamsOf(0, 0, 1, 0, 1, 0), VecModOf(<<>>, 1))

\* Option: None and Some(v)
None == <<>>
Some(v) == <<v>>
IsSome(o) == o # <<>>
IsNone(o) == o = <<>>

\* DcrtElementParamsBuilder::new
builder_new(ciphertext_order) ==
    [ciphertext_order |-> ciphertext_order, modulus |-> None, depth |-> None,
     bits |-> None, moduli |-> None, roots_of_unity |-> None,
     big_moduli |-> None, big_roots_of_unity |-> None]

NoBuilder == builder_new(0)

NoChain == [params |-> <<>>, ciphertext_composite_modulus |-> 0]

NotBuilt == [status |-> "no", fault |-> "none", limbs |-> 0]

NoVec == VecModOf(<<>>, 1)

NoOrigin == [poly |-> NoPoly, vec |-> NoVec]

OpOf(name, k, rhs) == [name |-> name, k |-> k, rhs |-> rhs]

InitPoly ==
    /\ poly \in PolyInits
    /\ prev = NoPoly
    /\ op = OpOf("new", 0, NoPoly)
    /\ fault = "none"
    /\ steps = 0
    /\ profile \in {"debug", "release"}
    /\ builder = NoBuilder
    /\ chain = NoChain
    /\ built = NotBuilt
    /\ vec = NoVec
    /\ origin = NoOrigin
    /\ trail = <<>>

\* the operation `name` with arguments k, rhs gave r = [fault, poly]
Apply(name, k, rhs, r) ==
    /\ fault = "none"
    /\ steps < MaxOps
    /\ poly' = r.poly
    /\ fault' = r.fault
    /\ prev' = poly
    /\ op' = OpOf(name, k, rhs)
    /\ steps' = steps + 1
    /\ UNCHANGED <<profile, builder, chain, built, vec, origin, trail>>

Neg == Apply("neg", 0, NoPoly, poly_neg(poly))

AddScalar == \E c \in Scalars(poly) : Apply("add_scalar", c, NoPoly, poly_add_scalar(poly, c))

SubScalar == \E c \in Scalars(poly) : Apply("sub_scalar", c, NoPoly, poly_sub_scalar(poly, c))

MulScalar == \E c \in Scalars(poly) : Apply("mul_scalar", c, NoPoly, poly_mul_scalar(poly, c))

DivScalar == \E c \in Scalars(poly) : Apply("div_scalar", c, NoPoly, poly_div_scalar(poly, c))

Rem == \E m \in OddModuli : Apply("rem", m, NoPoly, poly_rem(poly, m))

AddPoly == \E r \in RhsChoices(poly) : Apply("add", 0, r, poly_add(poly, r))

SubPoly == \E r \in RhsChoices(poly) : Apply("sub", 0, r, poly_sub(poly, r))

MulPoly == \E r \in RhsChoices(poly) : Apply("mul", 0, r, poly_mul(poly, r, profile))

Automorphism == \E k \in {1, 3, 9} : Apply("automorphism_transform", k, NoPoly, automorphism_transform(poly, k))

MakeSparse == \E w \in {1, 2} : Apply("make_sparse", w, NoPoly, make_sparse(poly, w))

Mod2 == Apply("mod_2", 0, NoPoly, mod_2(poly))

SetValues == \E vals \in {<<7>>, <<1, 2, 3, 4>>} : Apply("set_values", Len(vals), NoPoly, set_values(poly, vals))

SetZero == Apply("set_zero", 0, NoPoly, set_zero(poly))

SetMax == Apply("set_max", 0, NoPoly, set_max(poly))

SwitchModulus ==
    \E m \in OddModuli :
        Apply("switch_modulus", m, NoPoly,
              switch_modulus(poly, m, MinRoot(poly.params.cyclotomic_order, m), 1, 0))

NextPoly ==
    \/ Neg \/ AddScalar \/ SubScalar \/ MulScalar \/ DivScalar \/ Rem
    \/ AddPoly \/ SubPoly \/ MulPoly
    \/ Automorphism \/ MakeSparse \/ Mod2
    \/ SetValues \/ SetZero \/ SetMax \/ SwitchModulus

SpecPoly == InitPoly /\ [][NextPoly]_vars

-----------------------------------------------------------------------------
(* Specification SpecNtt: the transforms of Poly multiplication applied to   *)
(* constructed Polys: ntt followed by NttPoly::inv, and the product a * b.   *)

\* the Polys of the constructors, and every Coefficient Poly of ring_dimension
\* coefficients below the modulus on the rings of modulus 5 (discrete_gaussian
\* followed by set_values)
NttInits ==
    PolyInits \cup
    UNION { { PolyOf(Coefficient, params, VecModOf(v, params.ciphertext_modulus))
              : v \in [1..params.ring_dimension -> 0..(params.ciphertext_modulus - 1)] }
          : params \in { pp \in PolyParams : pp.ciphertext_modulus = 5 } }

InitNtt ==
    /\ poly \in NttInits
    /\ prev = NoPoly
    /\ op = OpOf("new", 0, NoPoly)
    /\ fault = "none"
    /\ steps = 0
    /\ profile \in {"debug", "release"}
    /\ builder = NoBuilder
    /\ chain = NoChain
    /\ built = NotBuilt
    /\ vec = NoVec
    /\ origin = NoOrigin
    /\ trail = <<>>

\* self.ntt(): poly holds the values of the NttPoly
NttForward ==
    /\ op.name = "new"
    /\ fault = "none"
    /\ LET r == poly_ntt(poly)
       IN /\ poly' = [poly EXCEPT !.values.values = r.values]
          /\ fault' = r.fault
    /\ prev' = poly
    /\ op' = OpOf("ntt", 0, NoPoly)
    /\ steps' = steps + 1
    /\ UNCHANGED <<profile, builder, chain, built, vec, origin, trail>>

\* NttPoly::inv() of the transform just taken; prev stays the original Poly
NttInverse ==
    /\ op.name = "ntt"
    /\ fault = "none"
    /\ LET r == nttpoly_inv(poly, poly.values.values)
       IN /\ poly' = r.poly
          /\ fault' = r.fault
    /\ op' = OpOf("inv", 0, NoPoly)
    /\ steps' = steps + 1
    /\ UNCHANGED <<prev, profile, builder, chain, built, vec, origin, trail>>

\* self *= rhs for a right operand of identical params and format
NttMul ==
    /\ op.name = "new"
    /\ \E r \in { x \in NttInits : x.params = poly.params /\ x.format = poly.format } :
           Apply("mul", 0, r, poly_mul(poly, r, profile))

NextNtt == NttForward \/ NttInverse \/ NttMul

SpecNtt == InitNtt /\ [][NextNtt]_vars

RECURSIVE ConvSum(_, _, _, _, _, _)
\* sum over i in i0..n-1 of the signed terms a_i * b_j of x^k in a * b mod x^n + 1
\* (indices from 0; j = k - i, or k - i + n with the sign flipped)
ConvSum(a, b, n, q, k, i) ==
    IF i >= n THEN 0
    ELSE LET term == IF i <= k THEN a[i + 1] * b[k - i + 1]
                     ELSE q * q - a[i + 1] * b[k - i + n + 1]
         IN (term + ConvSum(a, b, n, q, k, i + 1)) % q

\* brute-force negacyclic convolution of two coefficient vectors of length n
NegacyclicConvolution(a, b, n, q) == [k \in 1..n |-> ConvSum(a, b, n, q, k - 1, 0)]

\* C1: for a and b of identical params and format, a * b completes without a
\* panic and equals the negacyclic convolution of the coefficient vectors
\* modulo q, the product in Z_q[x]/(x^N + 1).
C1_MulIsNegacyclicConvolution ==
    (/\ op.name = "mul"
     /\ Len(prev.values.values) = prev.params.ring_dimension
     /\ Len(op.rhs.values.values) = prev.params.ring_dimension)
    => /\ fault = "none"
       /\ poly.values.values =
            NegacyclicConvolution(prev.values.values, op.rhs.values.values,
                                  prev.params.ring_dimension, prev.params.ciphertext_modulus)

\* the root_of_unity of p is a primitive cyclotomic_order-th root of unity
PrimitiveRoot(p) ==
    MinRoot(p.params.cyclotomic_order, p.params.ciphertext_modulus) # 0
    /\ PowMod(p.params.root_of_unity, p.params.cyclotomic_order, p.params.ciphertext_modulus) = 1
    /\ \A e \in 1..(p.params.cyclotomic_order - 1) :
           PowMod(p.params.root_of_unity, e, p.params.ciphertext_modulus) # 1

\* C2: for entries below the modulus and a primitive root of unity, ntt
\* followed by inv completes without a panic and returns the original values.
C2_NttRoundTrip ==
    (op.name \in {"ntt", "inv"} /\ PrimitiveRoot(prev))
    => /\ fault = "none"
       /\ op.name = "inv" => poly.values.values = prev.values.values

-----------------------------------------------------------------------------
(* Claims on the Poly operations *)

\* the two operands of the last operation do not agree in params or format
OperandMismatch == op.rhs.params # prev.params \/ op.rhs.format # prev.format

\* C3: an element-by-element +, - or * of two Polys whose params or formats
\* differ panics and yields no computed element; for * as for + and -.
C3_MismatchAlwaysFaults ==
    (op.name \in {"add", "sub", "mul"} /\ OperandMismatch) => fault # "none"

\* C4: after any sequence of value-changing operations with scalar arguments
\* below the modulus, every coefficient of the Poly is strictly less than its
\* ciphertext_modulus.
C4_ValuesBelowModulus ==
    fault = "none" =>
        \A i \in 1..Len(poly.values.values) :
            poly.values.values[i] < poly.params.ciphertext_modulus

-----------------------------------------------------------------------------
(* DcrtElementParams and its builder (params.rs) *)

\* crypto_primes::generate_prime(MAX_MODULUS_SIZE): a random prime of exactly
\* MAX_MODULUS_SIZE bits
generate_prime(bits) == { p \in Pow2(bits - 1)..(Pow2(bits) - 1) : IsPrime(p) }

\* previous_prime(q, step): the nearest prime below q in the progression
\* q - k * step
previous_prime(q, step) ==
    LET found == { c \in { q - k * step : k \in 1..(q \div step) } : IsPrime(c) }
    IN IF found = {} THEN Fail("previous_prime: no prime found")
       ELSE Val(CHOOSE c \in found : \A d \in found : d <= c)

\* ElementParams::with_modulus: one outcome for each outcome of root_of_unity
with_modulus(order, ciphertext_modulus, prof) ==
    { IF r.fault # "none" THEN [fault |-> r.fault, val |-> ElementParamsOf(0, 0, 1, 0, 1, 0)]
      ELSE Val(with_ciphertext_root_of_unity(order, ciphertext_modulus, r.val))
    : r \in root_of_unity(order, ciphertext_modulus, prof) }

ChainOf(params, composite_modulus) ==
    [params |-> params, ciphertext_composite_modulus |-> composite_modulus]

\* what build gives: Ok(chain), Err(DcrtElementParamsMismatch), or a panic
BuildOk(params, composite_modulus) ==
    [status |-> "ok", fault |-> "none", chain |-> ChainOf(params, composite_modulus)]
BuildErr == [status |-> "err", fault |-> "none", chain |-> NoChain]
BuildPanic(msg) == [status |-> "panic", fault |-> msg, chain |-> NoChain]

CompositeOverflow == "composite_modulus: attempt to multiply with overflow"

\* q = previous_prime(q, order); push with_modulus(order, q);
\* composite_modulus *= q -- the body shared by the two generating arms; cont
\* is not evaluated here, the callers continue from each [q, params, composite]
next_limb(order, q, params, composite_modulus, prof) ==
    LET q1 == previous_prime(q, order)
    IN IF q1.fault # "none" THEN { [fault |-> q1.fault, q |-> 0, params |-> params, composite |-> 0] }
       ELSE IF q1.val % 2 = 0 THEN { [fault |-> "modulus is not odd", q |-> 0, params |-> params, composite |-> 0] }
       ELSE { IF e.fault # "none"
              THEN [fault |-> e.fault, q |-> 0, params |-> params, composite |-> 0]
              ELSE IF composite_modulus * q1.val >= Word
              THEN [fault |-> CompositeOverflow, q |-> 0, params |-> params, composite |-> 0]
              ELSE [fault |-> "none", q |-> q1.val, params |-> Append(params, e.val),
                    composite |-> composite_modulus * q1.val]
            : e \in with_modulus(order, q1.val, prof) }

RECURSIVE build_modulus_loop(_, _, _, _, _, _)
\* while composite_modulus < modulus { next limb }
build_modulus_loop(order, modulus, q, params, composite_modulus, prof) ==
    IF ~(composite_modulus < modulus) THEN { BuildOk(params, composite_modulus) }
    ELSE UNION { IF n.fault # "none" THEN { BuildPanic(n.fault) }
                 ELSE build_modulus_loop(order, modulus, n.q, n.params, n.composite, prof)
               : n \in next_limb(order, q, params, composite_modulus, prof) }

RECURSIVE build_depth_loop(_, _, _, _, _, _)
\* for _ in 1..depth { next limb }; rounds is the number of rounds left
build_depth_loop(order, rounds, q, params, composite_modulus, prof) ==
    IF rounds <= 0 THEN { BuildOk(params, composite_modulus) }
    ELSE UNION { IF n.fault # "none" THEN { BuildPanic(n.fault) }
                 ELSE build_depth_loop(order, rounds - 1, n.q, n.params, n.composite, prof)
               : n \in next_limb(order, q, params, composite_modulus, prof) }

\* the first limb of the two generating arms: q = generate_prime(MAX_MODULUS_SIZE),
\* push with_modulus(order, q), composite_modulus = q
first_limb(order, prof) ==
    UNION { IF q % 2 = 0 THEN { [fault |-> "modulus is not odd", q |-> 0, params |-> <<>>, composite |-> 0] }
            ELSE { IF e.fault # "none"
                   THEN [fault |-> e.fault, q |-> 0, params |-> <<>>, composite |-> 0]
                   ELSE [fault |-> "none", q |-> q, params |-> <<e.val>>, composite |-> q]
                 : e \in with_modulus(order, q, prof) }
          : q \in generate_prime(MAX_MODULUS_SIZE) }

\* arm (Some(modulus), None, None, None, None, None, None)
build_modulus(order, modulus, prof) ==
    UNION { IF f.fault # "none" THEN { BuildPanic(f.fault) }
            ELSE build_modulus_loop(order, modulus, f.q, f.params, f.composite, prof)
          : f \in first_limb(order, prof) }

\* arm (None, Some(depth), bits, None, None, None, None)
build_depth(order, depth, bits, prof) ==
    LET b == IF IsSome(bits) THEN bits[1] ELSE MAX_MODULUS_SIZE
    IN IF b > MAX_MODULUS_SIZE THEN { BuildErr }
       ELSE UNION { IF f.fault # "none" THEN { BuildPanic(f.fault) }
                    ELSE build_depth_loop(order, depth - 1, f.q, f.params, f.composite, prof)
                  : f \in first_limb(order, prof) }

RECURSIVE build_moduli_loop(_, _, _, _, _, _)
\* arm (None, None, None, Some(moduli), None, None, None):
\* for modulus in moduli { push with_modulus(order, modulus); composite *= modulus }
build_moduli_loop(order, moduli, i, params, composite_modulus, prof) ==
    IF i > Len(moduli) THEN { BuildOk(params, composite_modulus) }
    ELSE UNION { IF e.fault # "none" THEN { BuildPanic(e.fault) }
                 ELSE IF composite_modulus * moduli[i] >= Word THEN { BuildPanic(CompositeOverflow) }
                 ELSE build_moduli_loop(order, moduli, i + 1, Append(params, e.val),
                                        composite_modulus * moduli[i], prof)
               : e \in with_modulus(order, moduli[i], prof) }

RECURSIVE push_limbs(_, _, _, _)
\* for each limb of the zip { push limb; composite_modulus *= modulus }
push_limbs(limbs, i, params, composite_modulus) ==
    IF i > Len(limbs) THEN BuildOk(params, composite_modulus)
    ELSE IF composite_modulus * limbs[i].ciphertext_modulus >= Word THEN BuildPanic(CompositeOverflow)
    ELSE push_limbs(limbs, i + 1, Append(params, limbs[i]),
                    composite_modulus * limbs[i].ciphertext_modulus)

\* arm (None, None, None, Some(moduli), Some(roots_of_unity), None, None)
build_roots(order, moduli, roots_of_unity) ==
    IF Len(moduli) # Len(roots_of_unity) THEN BuildErr
    ELSE push_limbs([i \in 1..Len(moduli) |->
                        with_ciphertext_root_of_unity(order, moduli[i], roots_of_unity[i])],
                    1, <<>>, 1)

\* the length test with the two tests of the big vectors left out
all_four_mismatch_roots_only(moduli, roots_of_unity, big_moduli, big_roots_of_unity) ==
    Len(moduli) # Len(roots_of_unity)

\* the length test of the arm with all four vectors
all_four_mismatch(moduli, roots_of_unity, big_moduli, big_roots_of_unity) ==
    \/ Len(moduli) # Len(roots_of_unity)
    \/ Len(moduli) # Len(big_moduli)
    \/ Len(moduli) # Len(big_roots_of_unity)

\* arm (None, None, None, Some(moduli), Some(roots), Some(big_moduli), Some(big_roots));
\* the zip of the four vectors ends with the shortest
build_all_four(order, moduli, roots_of_unity, big_moduli, big_roots_of_unity) ==
    IF all_four_mismatch(moduli, roots_of_unity, big_moduli, big_roots_of_unity) THEN BuildErr
    ELSE LET n == Min(Min(Len(moduli), Len(roots_of_unity)),
                      Min(Len(big_moduli), Len(big_roots_of_unity)))
         IN push_limbs([i \in 1..n |->
                           with_big_ciphertext_params(order, moduli[i], roots_of_unity[i],
                                                      big_moduli[i], big_roots_of_unity[i])],
                       1, <<>>, 1)

\* DcrtElementParamsBuilder::build: the set of its outcomes
build(self, prof) ==
    LET order == self.ciphertext_order
        noVectors == IsNone(self.moduli) /\ IsNone(self.roots_of_unity) /\
                     IsNone(self.big_moduli) /\ IsNone(self.big_roots_of_unity)
    IN IF IsSome(self.modulus) /\ IsNone(self.depth) /\ IsNone(self.bits) /\ noVectors
       THEN build_modulus(order, self.modulus[1], prof)
       ELSE IF IsNone(self.modulus) /\ IsSome(self.depth) /\ noVectors
       THEN build_depth(order, self.depth[1], self.bits, prof)
       ELSE IF IsNone(self.modulus) /\ IsNone(self.depth) /\ IsNone(self.bits) /\
               IsSome(self.moduli) /\ IsNone(self.roots_of_unity) /\
               IsNone(self.big_moduli) /\ IsNone(self.big_roots_of_unity)
       THEN build_moduli_loop(order, self.moduli[1], 1, <<>>, 1, prof)
       ELSE IF IsNone(self.modulus) /\ IsNone(self.depth) /\ IsNone(self.bits) /\
               IsSome(self.moduli) /\ IsSome(self.roots_of_unity) /\
               IsNone(self.big_moduli) /\ IsNone(self.big_roots_of_unity)
       THEN { build_roots(order, self.moduli[1], self.roots_of_unity[1]) }
       ELSE IF IsNone(self.modulus) /\ IsNone(self.depth) /\ IsNone(self.bits) /\
               IsSome(self.moduli) /\ IsSome(self.roots_of_unity) /\
               IsSome(self.big_moduli) /\ IsSome(self.big_roots_of_unity)
       THEN { build_all_four(order, self.moduli[1], self.roots_of_unity[1],
                             self.big_moduli[1], self.big_roots_of_unity[1]) }
       ELSE { BuildErr }

\* pop_back with the division left out
pop_back_undivided(self) ==
    IF self.params = <<>> THEN self
    ELSE ChainOf(SubSeq(self.params, 1, Len(self.params) - 1), self.ciphertext_composite_modulus)

\* DcrtElementParams::pop_back
pop_back(self) ==
    IF self.params = <<>> THEN self
    ELSE ChainOf(SubSeq(self.params, 1, Len(self.params) - 1),
                 self.ciphertext_composite_modulus
                    \div self.params[Len(self.params)].ciphertext_modulus)

\* DcrtElementParams::pop_front
pop_front(self) ==
    IF self.params = <<>> THEN self
    ELSE ChainOf(Tail(self.params),
                 self.ciphertext_composite_modulus \div Head(self.params).ciphertext_modulus)

-----------------------------------------------------------------------------
(* Specification SpecDcrt: a builder is made, its setters are called, build  *)
(* is called, and limbs are popped from the chain it returned.               *)

\* cyclotomic orders handed to DcrtElementParamsBuilder::new
Orders == {2, 4}
\* target moduli: below every generated prime, above every generated prime,
\* and the largest odd word
TargetModuli == {3, Pow2(MAX_MODULUS_SIZE) - 1, Word - 1}
Depths == 0..MaxDepth
BitsChoices == {MAX_MODULUS_SIZE - 1, MAX_MODULUS_SIZE, MAX_MODULUS_SIZE + 1}
ModuliChoices == {<<>>, <<5>>, <<5, 13>>, <<13, 17>>, <<3, 5, 7>>, <<17, 17>>}
RootChoices == {<<>>, <<2>>, <<4, 5>>, <<2, 3, 4>>}
BigModuliChoices == {<<29>>, <<29, 37>>}
BigRootChoices == {<<3>>, <<3, 5>>}

InitDcrt ==
    /\ builder \in { builder_new(o) : o \in Orders }
    /\ chain = NoChain
    /\ built = NotBuilt
    /\ profile \in {"debug", "release"}
    /\ fault = "none"
    /\ op = OpOf("new", 0, NoPoly)
    /\ poly = NoPoly
    /\ prev = NoPoly
    /\ steps = 0
    /\ vec = NoVec
    /\ origin = NoOrigin
    /\ trail = <<>>

\* a setter: builder = builder.field(value)
Setter(b) ==
    /\ built.status = "no"
    /\ builder' = b
    /\ UNCHANGED <<poly, prev, op, fault, steps, profile, chain, built, vec, origin, trail>>

SetModulus ==
    /\ IsNone(builder.modulus)
    /\ \E m \in TargetModuli : Setter([builder EXCEPT !.modulus = Some(m)])

SetDepth ==
    /\ IsNone(builder.depth)
    /\ \E d \in Depths : Setter([builder EXCEPT !.depth = Some(d)])

SetBits ==
    /\ IsNone(builder.bits)
    /\ \E b \in BitsChoices : Setter([builder EXCEPT !.bits = Some(b)])

SetModuli ==
    /\ IsNone(builder.moduli)
    /\ \E m \in ModuliChoices : Setter([builder EXCEPT !.moduli = Some(m)])

SetRootsOfUnity ==
    /\ IsNone(builder.roots_of_unity)
    /\ \E r \in RootChoices : Setter([builder EXCEPT !.roots_of_unity = Some(r)])

SetBigModuli ==
    /\ IsNone(builder.big_moduli)
    /\ \E m \in BigModuliChoices : Setter([builder EXCEPT !.big_moduli = Some(m)])

SetBigRootsOfUnity ==
    /\ IsNone(builder.big_roots_of_unity)
    /\ \E r \in BigRootChoices : Setter([builder EXCEPT !.big_roots_of_unity = Some(r)])

\* builder.build()
Build ==
    /\ built.status = "no"
    /\ \E r \in build(builder, profile) :
          /\ built' = [status |-> r.status, fault |-> r.fault, limbs |-> Len(r.chain.params)]
          /\ chain' = r.chain
          /\ fault' = r.fault
    /\ op' = OpOf("build", 0, NoPoly)
    /\ UNCHANGED <<poly, prev, steps, profile, builder, vec, origin, trail>>

\* chain.pop_front() / chain.pop_back() on a returned chain
Pop(name, c) ==
    /\ built.status = "ok"
    /\ chain' = c
    /\ op' = OpOf(name, 0, NoPoly)
    /\ UNCHANGED <<poly, prev, fault, steps, profile, builder, built, vec, origin, trail>>

PopFront == Pop("pop_front", pop_front(chain))

PopBack == Pop("pop_back", pop_back(chain))

NextDcrt ==
    \/ SetModulus \/ SetDepth \/ SetBits \/ SetModuli \/ SetRootsOfUnity
    \/ SetBigModuli \/ SetBigRootsOfUnity \/ Build \/ PopFront \/ PopBack

SpecDcrt == InitDcrt /\ [][NextDcrt]_vars

-----------------------------------------------------------------------------
(* Claims on DcrtElementParams and its builder *)

RECURSIVE ProductOfModuli(_)
\* the exact product of the limb moduli
ProductOfModuli(params) ==
    IF params = <<>> THEN 1
    ELSE Head(params).ciphertext_modulus * ProductOfModuli(Tail(params))

\* the fields of the builder that are set
Present(b) ==
    { f \in {"modulus", "depth", "bits", "moduli", "roots_of_unity",
             "big_moduli", "big_roots_of_unity"} : IsSome(b[f]) }

\* C5: a chain that build returned, and every chain got from it by pops, has
\* ciphertext_composite_modulus equal to the product of the moduli of the
\* limbs it holds
C5_CompositeIsProduct ==
    built.status = "ok" =>
        chain.ciphertext_composite_modulus = ProductOfModuli(chain.params)

\* C5 witness: a chain built with three limbs from which limbs were popped,
\* the last of them at the back, and which still holds a limb
C5_Witness ==
    /\ built.status = "ok"
    /\ built.limbs = 3
    /\ op.name = "pop_back"
    /\ Len(chain.params) = 1
    /\ chain.ciphertext_composite_modulus > 1

\* the five accepted combinations of fields, depth with or without bits
AcceptedCombinations ==
    { {"modulus"}, {"depth"}, {"depth", "bits"}, {"moduli"},
      {"moduli", "roots_of_unity"},
      {"moduli", "roots_of_unity", "big_moduli", "big_roots_of_unity"} }

\* the lengths of the vectors handed to the builder
SuppliedLengths(b) ==
    { Len(b[f][1]) : f \in Present(b) \cap {"moduli", "roots_of_unity",
                                            "big_moduli", "big_roots_of_unity"} }

\* C6: build returns Err(DcrtElementParamsMismatch) for every combination of
\* fields that is not one of the five accepted, and whenever the vectors
\* supplied differ in length
C6_MismatchIsAnError ==
    (/\ built.status # "no"
     /\ \/ Present(builder) \notin AcceptedCombinations
        \/ Cardinality(SuppliedLengths(builder)) > 1)
    => (built.status = "err" /\ fault = "none")

\* C6 witness: all four vectors were supplied, moduli and roots of one
\* length, the big moduli of another, and build returned the error
C6_Witness ==
    /\ built.status = "err"
    /\ Present(builder) = {"moduli", "roots_of_unity", "big_moduli", "big_roots_of_unity"}
    /\ Len(builder.moduli[1]) = Len(builder.roots_of_unity[1])
    /\ Len(builder.big_moduli[1]) # Len(builder.moduli[1])

\* C7: build with a target modulus M alone never overflows the composite
\* modulus, and the chain it returns has a product of limb moduli >= M held
\* exactly in ciphertext_composite_modulus
C7_TargetModulusReached ==
    (op.name = "build" /\ Present(builder) = {"modulus"}) =>
        /\ built.fault # CompositeOverflow
        /\ built.status = "ok" =>
              /\ ProductOfModuli(chain.params) >= builder.modulus[1]
              /\ chain.ciphertext_composite_modulus = ProductOfModuli(chain.params)

\* C8: build with a depth d (bits within MAX_MODULUS_SIZE) returns a chain
\* of exactly d limbs, for d = 0 and d = 1 too, and does not overflow
C8_DepthLimbs ==
    (/\ op.name = "build"
     /\ Present(builder) \in { {"depth"}, {"depth", "bits"} }
     /\ built.status # "err")
    => /\ built.fault # CompositeOverflow
       /\ built.status = "ok" => built.limbs = builder.depth[1]

-----------------------------------------------------------------------------
(* Specification SpecSwitch: a VecMod and a Poly over the same residues are  *)
(* switched from modulus to modulus, at most MaxSwitches times.              *)

\* modulus switches in a run
MaxSwitches == 2

\* the odd moduli switched from and to, all within MAX_MODULUS_SIZE bits
SwitchModuli == {3, 5, 7, 13, Pow2(MAX_MODULUS_SIZE) - 3}

\* the vectors of two residues modulo q
ResidueVectors(q) == { <<a, b>> : a \in 0..(q - 1), b \in 0..(q - 1) }

SwitchStep(name, from, to) == [name |-> name, from |-> from, to |-> to]

InitSwitch ==
    /\ \E q \in SwitchModuli \ {Pow2(MAX_MODULUS_SIZE) - 3} : \E v \in ResidueVectors(q) :
          /\ vec = VecModOf(v, q)
          /\ poly = PolyOf(Coefficient, with_ciphertext_root_of_unity(4, q, 0), VecModOf(v, q))
    /\ origin = [poly |-> poly, vec |-> vec]
    /\ trail = <<>>
    /\ prev = NoPoly
    /\ op = OpOf("new", 0, NoPoly)
    /\ fault = "none"
    /\ steps = 0
    /\ profile \in {"debug", "release"}
    /\ builder = NoBuilder
    /\ chain = NoChain
    /\ built = NotBuilt

\* vec.switch_modulus(p)
VecSwitchModulus ==
    /\ fault = "none"
    /\ Len(trail) < MaxSwitches
    /\ \E p \in SwitchModuli :
          LET r == vec_switch_modulus(vec, p)
          IN /\ vec' = r.vec
             /\ fault' = r.fault
             /\ trail' = Append(trail, SwitchStep("VecMod::switch_modulus", vec, p))
    /\ UNCHANGED <<poly, prev, op, steps, profile, builder, chain, built, origin>>

\* poly.switch_modulus(p, root, 1, 0)
PolySwitchModulus ==
    /\ fault = "none"
    /\ Len(trail) < MaxSwitches
    /\ \E p \in SwitchModuli :
          LET r == switch_modulus(poly, p, 0, 1, 0)
          IN /\ poly' = r.poly
             /\ fault' = r.fault
             /\ trail' = Append(trail, SwitchStep("Poly::switch_modulus", poly.values, p))
    /\ prev' = poly
    /\ UNCHANGED <<vec, op, steps, profile, builder, chain, built, origin>>

NextSwitch == VecSwitchModulus \/ PolySwitchModulus

SpecSwitch == InitSwitch /\ [][NextSwitch]_vars

\* the residue modulo p of the centered representative of x modulo q
CenteredSwitch(x, q, p) ==
    IF x <= q \div 2 THEN x % p ELSE (x + q * p - q) % p

\* C9: VecMod::switch_modulus from q to p takes each residue x to x mod p
\* when x <= floor(q/2) and to (x + (p - q)) mod p otherwise, does not
\* panic, and leaves the vector with modulus p
C9_VecSwitchCentered ==
    (trail # <<>> /\ trail[Len(trail)].name = "VecMod::switch_modulus") =>
        LET last == trail[Len(trail)]
            q == last.from.params
            p == last.to
        IN /\ fault = "none"
           /\ vec.params = p
           /\ Len(vec.values) = Len(last.from.values)
           /\ \A i \in 1..Len(vec.values) :
                 vec.values[i] = CenteredSwitch(last.from.values[i], q, p)

\* C9 witness: a switch to a smaller modulus of a vector that held a residue
\* above floor(q/2) and one not above it
C9_Witness ==
    /\ trail # <<>>
    /\ trail[Len(trail)].name = "VecMod::switch_modulus"
    /\ trail[Len(trail)].to < trail[Len(trail)].from.params
    /\ trail[Len(trail)].from.values[1] > trail[Len(trail)].from.params \div 2
    /\ trail[Len(trail)].from.values[2] <= trail[Len(trail)].from.params \div 2
    /\ trail[Len(trail)].from.values[2] > 0
    /\ vec.params = trail[Len(trail)].to

\* the magnitude of the centered representative of x modulo q
CenteredMagnitude(x, q) == IF x <= q \div 2 THEN x ELSE q - x

\* C10: a Poly of modulus q1 switched to q2 and back to q1 by
\* Poly::switch_modulus has its original coefficients again whenever every
\* centered coefficient has magnitude < q2 / 2
C10_SwitchRoundTrip ==
    (/\ Len(trail) = 2
     /\ trail[1].name = "Poly::switch_modulus"
     /\ trail[2].name = "Poly::switch_modulus"
     /\ trail[2].to = origin.poly.params.ciphertext_modulus
     /\ \A i \in 1..Len(origin.poly.values.values) :
           2 * CenteredMagnitude(origin.poly.values.values[i],
                                 origin.poly.params.ciphertext_modulus) < trail[1].to)
    => (fault = "none" /\ poly.values.values = origin.poly.values.values)

-----------------------------------------------------------------------------
(* Specification SpecInverse: the elementwise inverse of a VecMod and of a   *)
(* Poly whose entries are residues of a prime modulus.                       *)

\* Poly::inverse: self.values.inverse() mapped into a Poly with self's fields
poly_inverse(self) ==
    LET r == vec_inverse(self.values)
    IN [some |-> r.some, fault |-> r.fault, poly |-> [self EXCEPT !.values = r.vec]]

\* the prime moduli of the operands
InversePrimes == {3, 5, 7, 13}

\* the lengths of the operands
InverseLengths == {1, 2}

\* the vectors of len residues modulo q
ResiduesOfLength(len, q) == [1..len -> 0..(q - 1)]

InitInverse ==
    /\ \E q \in InversePrimes : \E len \in InverseLengths : \E v \in ResiduesOfLength(len, q) :
          /\ vec = VecModOf(v, q)
          /\ \E f \in {Evaluation, Coefficient} :
                poly = PolyOf(f, with_ciphertext_root_of_unity(2, q, q - 1), VecModOf(v, q))
    /\ origin = [poly |-> poly, vec |-> vec]
    /\ trail = <<>>
    /\ prev = NoPoly
    /\ op = OpOf("new", 0, NoPoly)
    /\ fault = "none"
    /\ steps = 0
    /\ profile \in {"debug", "release"}
    /\ builder = NoBuilder
    /\ chain = NoChain
    /\ built = NotBuilt

\* vec.inverse(): the operand is borrowed; trail holds what was returned
VecInverse ==
    /\ fault = "none"
    /\ trail = <<>>
    /\ LET r == vec_inverse(vec)
       IN /\ trail' = <<[name |-> "VecMod::inverse", some |-> r.some, values |-> r.vec.values,
                         modulus |-> r.vec.params, format |-> "", params |-> poly.params]>>
          /\ fault' = r.fault
    /\ UNCHANGED <<poly, prev, op, steps, profile, builder, chain, built, vec, origin>>

\* poly.inverse()
PolyInverse ==
    /\ fault = "none"
    /\ trail = <<>>
    /\ LET r == poly_inverse(poly)
       IN /\ trail' = <<[name |-> "Poly::inverse", some |-> r.some, values |-> r.poly.values.values,
                         modulus |-> r.poly.values.params, format |-> r.poly.format,
                         params |-> r.poly.params]>>
          /\ fault' = r.fault
    /\ UNCHANGED <<poly, prev, op, steps, profile, builder, chain, built, vec, origin>>

NextInverse == VecInverse \/ PolyInverse

SpecInverse == InitInverse /\ [][NextInverse]_vars

\* C11: VecMod::inverse and Poly::inverse do not panic and leave the operand
\* as it was; they return None exactly when an entry of the operand is zero,
\* and otherwise a vector of the operand's length and modulus whose entry i
\* times the operand's entry i is 1 modulo the prime modulus
C11_InverseOrNone ==
    trail # <<>> =>
        LET r == trail[1]
            operand == IF r.name = "VecMod::inverse" THEN vec ELSE poly.values
            hasZero == \E i \in 1..Len(operand.values) : operand.values[i] = 0
        IN /\ fault = "none"
           /\ vec = origin.vec /\ poly = origin.poly
           /\ r.some = ~hasZero
           /\ r.some =>
                 /\ Len(r.values) = Len(operand.values)
                 /\ r.modulus = operand.params
                 /\ \A i \in 1..Len(r.values) :
                       (r.values[i] * operand.values[i]) % operand.params = 1
                 /\ r.name = "Poly::inverse" =>
                       (r.format = poly.format /\ r.params = poly.params)

\* C11 witness: Poly::inverse returned Some for two entries that are neither
\* 0 nor 1
C11_Witness ==
    /\ trail # <<>>
    /\ trail[1].name = "Poly::inverse"
    /\ trail[1].some
    /\ Len(poly.values.values) = 2
    /\ poly.values.values[1] > 1
    /\ poly.values.values[2] > 1
    /\ poly.values.values[1] # poly.values.values[2]

-----------------------------------------------------------------------------
(* Specification SpecAuto: automorphism_transform applied, at most           *)
(* MaxAutos times in a row, to a Poly whose values were set by set_values.   *)

\* automorphism_transform calls in a run
MaxAutos == 2

\* <<cyclotomic_order, ciphertext_modulus, root_of_unity>> of the rings
AutoRings == {<<4, 17, 4>>, <<8, 17, 2>>}

\* ElementParams as the constructor gives them, and with the ring dimension
\* cyclotomic_order / 2 assigned to the public field
AutoParams ==
    UNION { { with_ciphertext_root_of_unity(c[1], c[2], c[3]),
              [with_ciphertext_root_of_unity(c[1], c[2], c[3])
                  EXCEPT !.ring_dimension = c[1] \div 2] } : c \in AutoRings }

\* the values handed to set_values
AutoValues == {<<1, 2, 3, 4, 5, 6, 7, 8>>, <<0, 1, 0, 0, 0, 0, 0, 0>>, <<3, 0, 16, 1, 1, 5, 0, 2>>}

\* a Coefficient Poly of ring_dimension values (discrete_gaussian) and an
\* Evaluation Poly of cyclotomic_order values (Poly::max), then set_values
AutoInits ==
    UNION { { set_values(PolyDiscreteGaussian(params, SeqOf(params.ring_dimension, 0)), v).poly,
              set_values(PolyMax(params), v).poly } : params \in AutoParams, v \in AutoValues }

InitAuto ==
    /\ poly \in AutoInits
    /\ origin = [poly |-> poly, vec |-> poly.values]
    /\ trail = <<>>
    /\ prev = NoPoly
    /\ op = OpOf("new", 0, NoPoly)
    /\ fault = "none"
    /\ steps = 0
    /\ profile \in {"debug", "release"}
    /\ builder = NoBuilder
    /\ chain = NoChain
    /\ built = NotBuilt
    /\ vec = NoVec

\* poly = poly.automorphism_transform(k); trail holds the k applied so far
AutomorphismStep ==
    /\ fault = "none"
    /\ Len(trail) < MaxAutos
    /\ \E k \in { x \in 1..(2 * poly.params.cyclotomic_order) : x % 2 = 1 } :
          LET r == automorphism_transform(poly, k)
          IN /\ poly' = r.poly
             /\ fault' = r.fault
             /\ trail' = Append(trail, k)
    /\ prev' = poly
    /\ UNCHANGED <<op, steps, profile, builder, chain, built, vec, origin>>

NextAuto == AutomorphismStep

SpecAuto == InitAuto /\ [][NextAuto]_vars

\* C12: automorphism_transform(k2) followed by automorphism_transform(k1)
\* gives, without a panic, the element that automorphism_transform(k1 * k2
\* mod cyclotomic_order) gives on the original, in both formats
C12_AutomorphismComposes ==
    Len(trail) = 2 =>
        LET m == origin.poly.params.cyclotomic_order
            direct == automorphism_transform(origin.poly, (trail[1] * trail[2]) % m)
        IN /\ fault = "none"
           /\ direct.fault = "none"
           /\ poly = direct.poly

\* the vector the rule of the coefficient domain gives: coefficient j at
\* index j * k mod n, negated modulo q when floor(j * k / n) is odd
CoefficientRule(v, k, n, q) ==
    [i \in 1..n |->
        LET j == CHOOSE x \in 0..(n - 1) : (x * k) % n = i - 1
        IN IF ((j * k) \div n) % 2 = 1 THEN (q - v[j + 1]) % q ELSE v[j + 1]]

\* C13: in Coefficient format, on a ring of dimension N = cyclotomic_order / 2
\* holding N coefficients, automorphism_transform(k) for odd k puts
\* coefficient j at index j * k mod N, negated exactly when floor(j * k / N)
\* is odd; automorphism_transform(1) changes nothing
C13_CoefficientPermutation ==
    (/\ Len(trail) = 1
     /\ origin.poly.format = Coefficient
     /\ origin.poly.params.ring_dimension = origin.poly.params.cyclotomic_order \div 2
     /\ Len(origin.poly.values.values) = origin.poly.params.ring_dimension)
    => /\ fault = "none"
       /\ poly.values.values =
             CoefficientRule(origin.poly.values.values, trail[1],
                             origin.poly.params.ring_dimension,
                             origin.poly.params.ciphertext_modulus)
       /\ trail[1] = 1 => poly = origin.poly

-----------------------------------------------------------------------------
(* Poly::base_decompose and Poly::powers_of_base, and the specification      *)
(* SpecBase that applies one of them to a Poly.                              *)

\* the outcome of an operation that returns a Vec<Poly>
PolysOk(ps) == [fault |-> "none", polys |-> ps]
PolysPanic(msg) == [fault |-> msg, polys |-> <<>>]

\* the window count without the round-up of a partial window
windows_rounded_down(bits, base_bits) == bits \div base_bits

\* let (mut windows, remainder) = m.div_rem(&base_bits);
\* if remainder != 0 { windows += 1 }        (base_bits is not zero here)
windows_of(bits, base_bits) ==
    (bits \div base_bits) + (IF bits % base_bits # 0 THEN 1 ELSE 0)

\* value >> amount on a u64: an amount of the word size or more panics in a
\* debug build and is taken modulo the word size in a release build
shr(value, amount, prof) ==
    IF amount >= WordBits
    THEN IF prof = "debug" THEN Fail("attempt to shift right with overflow")
         ELSE Val(value \div Pow2(amount % WordBits))
    ELSE Val(value \div Pow2(amount))

\* 1 << base_bits on a u64, with the same rule for the amount
shl_one(base_bits, prof) ==
    IF base_bits >= WordBits
    THEN IF prof = "debug" THEN Fail("attempt to shift left with overflow")
         ELSE Val(Pow2(base_bits % WordBits))
    ELSE Val(Pow2(base_bits))

RECURSIVE digit_loop(_, _, _, _, _, _)
\* while i < base { digit += ((value >> new_index) & 1) * i; new_index += 1; i <<= 1 }
digit_loop(value, base, digit, new_index, i, prof) ==
    IF i >= base THEN Val(digit)
    ELSE LET s == shr(value, new_index, prof)
         IN IF s.fault # "none" THEN s
            ELSE digit_loop(value, base, digit + (s.val % 2) * i, new_index + 1, i * 2, prof)

\* Poly::get_digit_at_index_for_base; index counts from 0 into self.values
get_digit_at_index_for_base(self, index, base, prof) ==
    LET digit_length == BitLen(base) - 1
        new_index == 1 + (index - 1) * digit_length
    IN IF index >= Len(self.values.values) THEN Fail("index out of bounds")
       ELSE digit_loop(self.values.values[index + 1], base, 0, new_index, 1, prof)

RECURSIVE base_decompose_loop(_, _, _, _, _, _, _, _)
\* for i in 0..windows: every value of x_digit becomes the digit t
base_decompose_loop(x, x_digit, base, eval_mode_answer, windows, i, result, prof) ==
    IF i >= windows THEN PolysOk(result)
    ELSE LET t == get_digit_at_index_for_base(x, i + 1, base, prof)
             d == [x_digit EXCEPT !.format = x.format,
                                  !.values.values = SeqOf(Len(x_digit.values.values), t.val)]
         IN IF t.fault # "none" THEN PolysPanic(t.fault)
            ELSE IF eval_mode_answer THEN PolysPanic("not yet implemented")
            ELSE base_decompose_loop(x, d, base, eval_mode_answer, windows, i + 1,
                                     Append(result, d), prof)

\* Poly::base_decompose
base_decompose(self, base_bits, eval_mode_answer, prof) ==
    IF base_bits = 0 THEN PolysPanic("attempt to divide by zero")
    ELSE LET windows == windows_of(BitLen(self.params.ciphertext_modulus), base_bits)
             x == [self EXCEPT !.format = Coefficient]
             base == shl_one(base_bits, prof)
         IN IF windows = 0 THEN PolysOk(<<>>)
            ELSE IF base.fault # "none" THEN PolysPanic(base.fault)
            ELSE base_decompose_loop(x, PolyZero(self.params), base.val, eval_mode_answer,
                                     windows, 0, <<>>, prof)

\* Poly::powers_of_base: element i is self * two.pow(shift).retrieve(), the
\* shift growing by base_bits
powers_of_base(self, base_bits) ==
    IF base_bits = 0 THEN PolysPanic("attempt to divide by zero")
    ELSE LET windows == windows_of(BitLen(self.params.ciphertext_modulus), base_bits)
             q == self.monty_params_ciphertext_modulus
         IN PolysOk([i \in 1..windows |->
                       poly_mul_scalar(self, PowMod(2, (i - 1) * base_bits, q)).poly])

\* the largest base_bits asked for
MaxBaseBits == 4

\* <<cyclotomic_order, ciphertext_modulus, root_of_unity>> of the rings
BaseRings == {<<4, 5, 2>>, <<4, 13, 5>>, <<4, 17, 4>>}

BaseParams ==
    UNION { { with_ciphertext_root_of_unity(c[1], c[2], c[3]),
              [with_ciphertext_root_of_unity(c[1], c[2], c[3])
                  EXCEPT !.ring_dimension = c[1] \div 2] } : c \in BaseRings }

\* the values handed to set_values
BaseValues == {<<0, 0, 0, 0>>, <<1, 0, 0, 0>>, <<3, 2, 1, 4>>, <<4, 12, 16, 9>>, <<2, 2, 2, 2>>}

\* a Coefficient Poly of ring_dimension values (discrete_gaussian) and an
\* Evaluation Poly of cyclotomic_order values (Poly::max), then set_values
BaseInits ==
    UNION { { set_values(PolyDiscreteGaussian(params, SeqOf(params.ring_dimension, 0)), v).poly,
              set_values(PolyMax(params), v).poly } : params \in BaseParams, v \in BaseValues }

InitBase ==
    /\ poly \in BaseInits
    /\ origin = [poly |-> poly, vec |-> poly.values]
    /\ trail = <<>>
    /\ prev = NoPoly
    /\ op = OpOf("new", 0, NoPoly)
    /\ fault = "none"
    /\ steps = 0
    /\ profile \in {"debug", "release"}
    /\ builder = NoBuilder
    /\ chain = NoChain
    /\ built = NotBuilt
    /\ vec = NoVec

\* trail' = <<the call and the Vec<Poly> it returned>>
BaseDecompose ==
    /\ fault = "none" /\ trail = <<>>
    /\ \E base_bits \in 0..MaxBaseBits, eval_mode_answer \in BOOLEAN :
          LET r == base_decompose(poly, base_bits, eval_mode_answer, profile)
          IN /\ trail' = <<[name |-> "base_decompose", base_bits |-> base_bits,
                            eval_mode_answer |-> eval_mode_answer, polys |-> r.polys]>>
             /\ fault' = r.fault
    /\ UNCHANGED <<poly, prev, op, steps, profile, builder, chain, built, vec, origin>>

PowersOfBase ==
    /\ fault = "none" /\ trail = <<>>
    /\ \E base_bits \in 0..MaxBaseBits :
          LET r == powers_of_base(poly, base_bits)
          IN /\ trail' = <<[name |-> "powers_of_base", base_bits |-> base_bits,
                            eval_mode_answer |-> FALSE, polys |-> r.polys]>>
             /\ fault' = r.fault
    /\ UNCHANGED <<poly, prev, op, steps, profile, builder, chain, built, vec, origin>>

NextBase == BaseDecompose \/ PowersOfBase

SpecBase == InitBase /\ [][NextBase]_vars

\* ceil(bitlen(q) / b)
CeilWindows(q, b) == (BitLen(q) + b - 1) \div b

RECURSIVE DigitSum(_, _, _, _)
\* the sum over i < n of d_i[pos] * 2^(i * b)
DigitSum(ds, pos, b, n) ==
    IF n = 0 THEN 0
    ELSE DigitSum(ds, pos, b, n - 1) + ds[n].values.values[pos] * Pow2((n - 1) * b)

\* C14: base_decompose(b, false) of a Coefficient Poly, b >= 1, returns
\* without a panic exactly ceil(bitlen(q) / b) elements whose digits at every
\* position sum, weighted by 2^(i * b), to the coefficient modulo q
C14_BaseDecomposeDigits ==
    (/\ trail # <<>>
     /\ trail[1].name = "base_decompose"
     /\ trail[1].base_bits >= 1
     /\ ~trail[1].eval_mode_answer
     /\ poly.format = Coefficient)
    => LET b == trail[1].base_bits
           q == poly.params.ciphertext_modulus
           ds == trail[1].polys
       IN /\ fault = "none"
          /\ Len(ds) = CeilWindows(q, b)
          /\ \A pos \in 1..Len(poly.values.values) :
                /\ \A i \in 1..Len(ds) : pos <= Len(ds[i].values.values)
                /\ DigitSum(ds, pos, b, Len(ds)) % q = poly.values.values[pos] % q

-----------------------------------------------------------------------------
(* The format of a Poly: switch_format, set_format, and the specification    *)
(* SpecFormat that calls them.                                               *)

\* Poly::switch_format: todo!()
switch_format(self) == Panic("not yet implemented", self)

\* Element::set_format: if self.format() != format { self.switch_format() }
set_format(self, format) ==
    IF self.format # format THEN switch_format(self) ELSE Ok(self)

\* the call `name` with the format argument gave r; trail holds the calls
FormatCall(name, format, r) ==
    /\ fault = "none"
    /\ Len(trail) < MaxOps
    /\ poly' = r.poly
    /\ fault' = r.fault
    /\ prev' = poly
    /\ trail' = Append(trail, [name |-> name, format |-> format])
    /\ UNCHANGED <<op, steps, profile, builder, chain, built, vec, origin>>

SetFormat ==
    \E format \in {Evaluation, Coefficient} :
        FormatCall("set_format", format, set_format(poly, format))

SwitchFormat == FormatCall("switch_format", poly.format, switch_format(poly))

NextFormat == SetFormat \/ SwitchFormat

SpecFormat == InitPoly /\ [][NextFormat]_vars

\* the values one NTT of the direction that leads out of self's format gives
OneTransform(self) ==
    IF self.format = Coefficient THEN poly_ntt(self).values
    ELSE nttpoly_inv(self, self.values.values).poly.values.values

\* C16: set_format(f) on a Poly already in format f leaves format and values
\* as they are; on a Poly in the other format it completes without a panic,
\* the format is f and the values are those of one forward or inverse NTT
C16_SetFormat ==
    (trail # <<>> /\ trail[Len(trail)].name = "set_format")
    => LET f == trail[Len(trail)].format
       IN /\ fault = "none"
          /\ poly.format = f
          /\ prev.format = f => poly = prev
          /\ prev.format # f => poly.values.values = OneTransform(prev)

-----------------------------------------------------------------------------
(* Specification SpecUtils: one call of a function of utils.rs, or the       *)
(* construction of an ElementParams, on arguments from bounded sets.         *)

\* the cyclotomic orders asked for
UtilOrders == {1, 2, 4, 8, 16}

\* the largest modulus: MAX_MODULUS_SIZE bits
MaxModulus == Pow2(MAX_MODULUS_SIZE) - 1

InitUtils ==
    /\ trail = <<>>
    /\ fault = "none"
    /\ profile \in {"debug", "release"}
    /\ poly = NoPoly
    /\ prev = NoPoly
    /\ op = OpOf("new", 0, NoPoly)
    /\ steps = 0
    /\ builder = NoBuilder
    /\ chain = NoChain
    /\ built = NotBuilt
    /\ vec = NoVec
    /\ origin = NoOrigin

\* the call name(a, b) gave val (with the given fault); quotient and
\* corrections are those of a Barrett reduction, 0 otherwise
UtilCall(name, a, b, val, f, quotient, corrections) ==
    /\ fault = "none" /\ trail = <<>>
    /\ trail' = <<[name |-> name, a |-> a, b |-> b, val |-> val,
                   quotient |-> quotient, corrections |-> corrections]>>
    /\ fault' = f
    /\ UNCHANGED <<poly, prev, op, steps, profile, builder, chain, built, vec, origin>>

\* root_of_unity(cyclotomic_order, modulus), one outcome of the random search
RootOfUnity ==
    /\ trail = <<>>
    /\ \E cyclotomic_order \in UtilOrders, modulus \in 2..MaxModulus :
        \E r \in root_of_unity(cyclotomic_order, modulus, profile) :
            UtilCall("root_of_unity", cyclotomic_order, modulus, r.val, r.fault, 0, 0)

\* get_totient(n)
GetTotient ==
    /\ trail = <<>>
    /\ \E n \in 1..MaxModulus : UtilCall("get_totient", n, 0, get_totient(n), "none", 0, 0)

\* ElementParams::with_ciphertext_root_of_unity(cyclotomic_order, modulus, 1):
\* val is the ring_dimension of the parameters built
NewElementParams ==
    /\ trail = <<>>
    /\ \E cyclotomic_order \in UtilOrders, modulus \in {5, 17} :
        UtilCall("ElementParams", cyclotomic_order, modulus,
                 with_ciphertext_root_of_unity(cyclotomic_order, modulus, 1).ring_dimension,
                 "none", 0, 0)

\* barrett_reduction(a, modulus, compute_mu(modulus)) for an odd modulus and
\* a below modulus * modulus
BarrettReduction ==
    /\ trail = <<>>
    /\ \E modulus \in { x \in 3..MaxModulus : x % 2 = 1 } :
        \E a \in 0..(modulus * modulus - 1) :
            LET mu == compute_mu(modulus)
                r == barrett_reduction(a, modulus, mu)
            IN UtilCall("barrett_reduction", a, modulus, r, "none",
                        barrett_quotient(a, modulus, mu),
                        (barrett_uncorrected(a, modulus, mu) - r) \div modulus)

NextUtils == RootOfUnity \/ GetTotient \/ NewElementParams \/ BarrettReduction

SpecUtils == InitUtils /\ [][NextUtils]_vars

\* C17: for an odd prime q and a power of two m dividing q - 1, every outcome of
\* root_of_unity(m, q) is a value, the smallest primitive m-th root of unity
\* modulo q (so the same whichever generator was found), with r^m = 1 and,
\* for m >= 2, r^(m/2) = q - 1
C17_SmallestPrimitiveRoot ==
    (/\ trail # <<>>
     /\ trail[1].name = "root_of_unity"
     /\ IsPrime(trail[1].b) /\ trail[1].b >= 3
     /\ (trail[1].b - 1) % trail[1].a = 0)
    => LET m == trail[1].a
           q == trail[1].b
           r == trail[1].val
       IN /\ fault = "none"
          /\ r = MinRoot(m, q)
          /\ PowMod(r, m, q) = 1
          /\ m >= 2 => PowMod(r, m \div 2, q) = q - 1

\* Euler's totient: the number of 1 <= k <= n coprime to n
EulerTotient(n) == Cardinality({ k \in 1..n : Gcd(k, n) = 1 })

\* C18: get_totient(n) is Euler's totient of n for every n >= 1, and the
\* ElementParams built for a power-of-two cyclotomic order m >= 2 have
\* ring_dimension m / 2
C18_TotientIsEuler ==
    /\ (trail # <<>> /\ trail[1].name = "get_totient")
          => trail[1].val = EulerTotient(trail[1].a)
    /\ (trail # <<>> /\ trail[1].name = "ElementParams" /\ trail[1].a >= 2)
          => trail[1].val = trail[1].a \div 2

\* the most subtractions a correction loop may take
SmallCorrections == 2

\* C19: for an odd modulus m >= 3 of at most MAX_MODULUS_SIZE bits and
\* a < m * m, barrett_reduction(a, m, compute_mu(m)) is a mod m, the quotient
\* estimate is at most floor(a / m), and the correction loop subtracts at
\* most SmallCorrections times
C19_BarrettExact ==
    (trail # <<>> /\ trail[1].name = "barrett_reduction")
    => LET a == trail[1].a
           m == trail[1].b
       IN /\ trail[1].val = a % m
          /\ trail[1].quotient <= a \div m
          /\ trail[1].corrections <= SmallCorrections

-----------------------------------------------------------------------------
(* The rejection loops of the samplers (discretegaussian.rs,                 *)
(* base_sampler.rs) and the specification SpecSampler that runs one call.    *)
(* trail holds the frame of the call: its function, its position pc, its     *)
(* locals, and rng, the parity of the draws made from the generator.  A      *)
(* comparison of a draw with a density is a choice between its outcomes.     *)

\* const LIMIT in gen_i32_with_params (10_000 in the source)
LIMIT == 3

\* the largest k algorithm_g is followed to
MaxK == 3

\* the tree gen_ddg_tree fills for the hamming weights <<1, 2>>: -1 for the
\* inner nodes, -2 elsewhere; the guard `e_node_count == hamming_weights[i]`
\* never lets it write a leaf
DdgTree == << <<-1, -2>>, <<-2, -2>> >>
first_non_zero == 0
end_index == 2
matrix_size == 3

\* the ring_dimension arguments of the _with_params samplers
SamplerRings == {0, 1, 4, 8}

Frame(fn, ring_dimension) ==
    [fn |-> fn, pc |-> "running", ring_dimension |-> ring_dimension, rng |-> 0,
     count |-> 0, k |-> 0, n |-> 0, inner |-> "g",
     node_index |-> 0, i |-> 0, ans |-> -1, error |-> FALSE, hit |-> FALSE]

InitSampler ==
    /\ trail \in { <<Frame(fn, rd)>> : fn \in {"gen_i32_with_params", "gen_uint_with_params"},
                                      rd \in SamplerRings }
              \cup { <<Frame(fn, 0)>> : fn \in {"gen_i32_karney", "gen_i64_knuth_yao"} }
    /\ fault = "none"
    /\ profile \in {"debug", "release"}
    /\ poly = NoPoly
    /\ prev = NoPoly
    /\ op = OpOf("new", 0, NoPoly)
    /\ steps = 0
    /\ builder = NoBuilder
    /\ chain = NoChain
    /\ built = NotBuilt
    /\ vec = NoVec
    /\ origin = NoOrigin

\* the call fn is running; f is its frame
Running(fn) ==
    /\ fault = "none"
    /\ trail # <<>>
    /\ trail[1].fn = fn
    /\ trail[1].pc = "running"

\* the frame becomes g (with one more draw made) and the fault msg
SamplerStep(g, msg) ==
    /\ trail' = <<[g EXCEPT !.rng = 1 - trail[1].rng]>>
    /\ fault' = msg
    /\ UNCHANGED <<poly, prev, op, steps, profile, builder, chain, built, vec, origin>>

\* gen_i32_with_params, one round of `while !success`: count += 1 and the
\* panic when count > LIMIT come before the loop condition is read again
GenI32WithParams ==
    /\ Running("gen_i32_with_params")
    /\ LET f == trail[1]
       IN IF f.ring_dimension = 0
          THEN SamplerStep([f EXCEPT !.pc = "panicked"], "argument of integer logarithm must be positive")
          ELSE \E success \in BOOLEAN :
                  IF f.count + 1 > LIMIT
                  THEN SamplerStep([f EXCEPT !.count = f.count + 1, !.pc = "panicked"],
                                   "Failed to generate a valid sample after LIMIT attempts")
                  ELSE SamplerStep([f EXCEPT !.count = f.count + 1,
                                             !.pc = IF success THEN "returned" ELSE "running"],
                                   "none")

\* gen_uint_with_params, one draw: the loop `while !not_finished` has no
\* counter and ends when the comparison gives not_finished
GenUintWithParams ==
    /\ Running("gen_uint_with_params")
    /\ LET f == trail[1]
       IN IF f.ring_dimension = 0
          THEN SamplerStep([f EXCEPT !.pc = "panicked"], "argument of integer logarithm must be positive")
          ELSE \E not_finished \in BOOLEAN :
                  SamplerStep([f EXCEPT !.pc = IF not_finished THEN "returned" ELSE "running"],
                              "none")

\* algorithm_g inside the loop of gen_i32_karney: n += 1 while algorithm_h
\* returns true; then algorithm_p starts with n = k
KarneyG ==
    /\ Running("gen_i32_karney")
    /\ trail[1].inner = "g"
    /\ LET f == trail[1]
       IN \E algorithm_h \in BOOLEAN :
             /\ algorithm_h => f.k < MaxK
             /\ IF algorithm_h THEN SamplerStep([f EXCEPT !.k = f.k + 1], "none")
                ELSE SamplerStep([f EXCEPT !.inner = "p", !.n = f.k], "none")

RECURSIVE algorithm_b_loop(_, _)
\* while h != 0 && algorithm_b(..) { h -= 1 } over the outcomes bs
algorithm_b_loop(h, bs) ==
    IF h # 0 /\ bs # <<>> /\ Head(bs) THEN algorithm_b_loop(h - 1, Tail(bs)) ELSE h

\* the rest of a round of gen_i32_karney once algorithm_p returned true:
\* TRUE when the round returns a sample, FALSE when it `continue`s
karney_accepts(k, x_in_range, bs) ==
    IF ~x_in_range THEN FALSE
    ELSE LET h == algorithm_b_loop(k + 1, bs)
         IN h < 0

\* algorithm_p inside the loop of gen_i32_karney: while n != 0 &&
\* algorithm_h { n -= 1 }; it returns n < 0, and the round goes on to the
\* algorithm_b trials or starts over
KarneyP ==
    /\ Running("gen_i32_karney")
    /\ trail[1].inner = "p"
    /\ LET f == trail[1]
       IN \E algorithm_h \in BOOLEAN, x_in_range \in BOOLEAN, bs \in [1..(MaxK + 1) -> BOOLEAN] :
             IF f.n # 0 /\ algorithm_h
             THEN SamplerStep([f EXCEPT !.n = f.n - 1], "none")
             ELSE IF f.n < 0 /\ karney_accepts(f.k, x_in_range, bs)
                  THEN SamplerStep([f EXCEPT !.pc = "returned"], "none")
                  ELSE SamplerStep([f EXCEPT !.inner = "g", !.k = 0, !.n = 0], "none")

\* gen_i64_knuth_yao, one round of `for i in 0..64` (WordBits here) inside
\* `while !hit`: the for loop is left on hit or error, the while loop on hit
GenI64KnuthYao ==
    /\ Running("gen_i64_knuth_yao")
    /\ LET f == trail[1]
       IN IF f.hit THEN SamplerStep([f EXCEPT !.pc = "returned"], "none")
          ELSE IF f.error \/ f.i >= WordBits
          THEN SamplerStep([f EXCEPT !.node_index = 0, !.error = FALSE, !.i = 0], "none")
          ELSE \E bit \in {0, 1} :
                  LET node_index == 2 * f.node_index + bit
                      reads == first_non_zero <= f.i /\ f.i <= end_index
                      col == f.i - first_non_zero + 1
                      out_of_bounds == reads /\ (node_index + 1 > Len(DdgTree)
                                                 \/ col > Len(DdgTree[1]))
                      ans == IF reads /\ ~out_of_bounds THEN DdgTree[node_index + 1][col]
                             ELSE f.ans
                      looks == first_non_zero <= f.i
                      g == [f EXCEPT !.node_index = node_index, !.ans = ans, !.i = f.i + 1,
                                     !.hit = looks /\ ans >= 0 /\ ans # matrix_size - 1,
                                     !.error = looks /\ (ans = matrix_size - 1 \/ ans = -2)]
                  IN IF out_of_bounds
                     THEN SamplerStep([f EXCEPT !.pc = "panicked"], "index out of bounds")
                     ELSE SamplerStep(g, "none")

NextSampler ==
    GenI32WithParams \/ GenUintWithParams \/ KarneyG \/ KarneyP \/ GenI64KnuthYao

SpecSampler == InitSampler /\ [][NextSampler]_vars /\ WF_vars(NextSampler)

\* C20: a sampler call, whatever it draws, returns a sample or panics: no
\* rejection loop runs forever
C20_SamplerStops == <>(fault # "none" \/ trail[1].pc = "returned")

-----------------------------------------------------------------------------
(* DiscreteGaussian::new and set_std_dev (discretegaussian.rs), and the      *)
(* specification SpecGaussian that calls them.  trail holds the one          *)
(* DiscreteGaussian: its standard deviation and its peikert flag.            *)

\* the ceiling of the standard deviation is 2^StdDevBits (2^59 in the source)
StdDevBits == 10

StdDevCeiling == Pow2(StdDevBits)

KARNEY_THRESHOLD == 300

\* the standard deviations asked for
StdDevs == {1, KARNEY_THRESHOLD - 1, KARNEY_THRESHOLD, StdDevCeiling \div 8,
            StdDevCeiling, StdDevCeiling + 1, 2 * StdDevCeiling}

\* an outcome of a call: the fault and the DiscreteGaussian left behind
GaussOk(g) == [fault |-> "none", gauss |-> g]
GaussPanic(msg, g) == [fault |-> msg, gauss |-> g]

\* DiscreteGaussian::new: Normal::new(0.0, std_dev)? succeeds for every
\* finite std_dev; no other test is made
gaussian_new(std_dev) == GaussOk([std_dev |-> std_dev, peikert |-> FALSE, values |-> 0])

\* initialize: fin = ceil(std_dev * M) values are reserved with M = 12.006..;
\* a reservation of more than isize::MAX bytes panics
gaussian_initialize(self) ==
    LET fin == 12 * self.std_dev + 1
    IN IF 8 * fin > 16 * StdDevCeiling THEN GaussPanic("capacity overflow", self)
       ELSE GaussOk([self EXCEPT !.values = fin])

\* set_std_dev: panics when std_dev.log2() > 59.0
set_std_dev(self, std_dev) ==
    IF std_dev > StdDevCeiling THEN GaussPanic("Standard deviation too large", self)
    ELSE gaussian_initialize([self EXCEPT !.std_dev = std_dev,
                                          !.peikert = std_dev < KARNEY_THRESHOLD])

\* get_std_dev
get_std_dev(self) == self.std_dev

InitGaussian ==
    /\ trail = <<>>
    /\ fault = "none"
    /\ steps = 0
    /\ op = OpOf("none", 0, NoPoly)
    /\ profile \in {"debug", "release"}
    /\ poly = NoPoly
    /\ prev = NoPoly
    /\ builder = NoBuilder
    /\ chain = NoChain
    /\ built = NotBuilt
    /\ vec = NoVec
    /\ origin = NoOrigin

\* the call `name`(std_dev) gave r
GaussCall(name, std_dev, r) ==
    /\ steps < MaxOps + 1
    /\ trail' = <<r.gauss>>
    /\ fault' = r.fault
    /\ op' = OpOf(name, std_dev, NoPoly)
    /\ steps' = steps + 1
    /\ UNCHANGED <<poly, prev, profile, builder, chain, built, vec, origin>>

GaussianNew ==
    /\ fault = "none"
    /\ \E std_dev \in StdDevs : GaussCall("new", std_dev, gaussian_new(std_dev))

SetStdDev ==
    /\ fault = "none" /\ trail # <<>>
    /\ \E std_dev \in StdDevs : GaussCall("set_std_dev", std_dev, set_std_dev(trail[1], std_dev))

NextGaussian == GaussianNew \/ SetStdDev

SpecGaussian == InitGaussian /\ [][NextGaussian]_vars

\* C21: a call of new or set_std_dev with a standard deviation above the
\* ceiling does not return normally, and an existing DiscreteGaussian whose
\* calls all returned normally has get_std_dev() at most the ceiling
C21_StdDevCeiling ==
    /\ (op.name \in {"new", "set_std_dev"} /\ op.k > StdDevCeiling) => fault # "none"
    /\ (trail # <<>> /\ fault = "none") => get_std_dev(trail[1]) <= StdDevCeiling

-----------------------------------------------------------------------------
(* The process-wide caches of dftransform.rs and the specification SpecDft   *)
(* in which threads call reset, initialize, precompute_table and             *)
(* fft_forward_transform.  trail holds the one record of the process: the    *)
(* three caches with the poison flag of their RwLock, and for every thread   *)
(* its position, its argument, the calls it made and its last result;        *)
(* latest is the thread that returned last.                                  *)

\* the threads of the process
Threads == {1, 2}

\* calls one thread makes
MaxCalls == 2

LOGM_MAX == 18

\* the entries precompute_table(s) pushes: from_polar(1, -2 pi j / s), j < s
RootEntries(s) == [j \in 1..s |-> <<j - 1, s>>]

Idle == [pc |-> "idle", arg |-> 0]

NoResult == [fn |-> "none", arg |-> 0, result |-> "none", poisoned |-> FALSE]

Result(fn, arg, result, poisoned) ==
    [fn |-> fn, arg |-> arg, result |-> result, poisoned |-> poisoned]

InitDft ==
    /\ trail = <<[root |-> <<>>, root_poisoned |-> FALSE,
                  values |-> {}, values_poisoned |-> FALSE,
                  cached_m |-> {}, tables_poisoned |-> FALSE,
                  thread |-> [t \in Threads |-> Idle],
                  calls |-> [t \in Threads |-> 0],
                  latest |-> 0,
                  last |-> [t \in Threads |-> NoResult]]>>
    /\ fault = "none"
    /\ steps = 0
    /\ op = OpOf("none", 0, NoPoly)
    /\ profile \in {"debug", "release"}
    /\ poly = NoPoly
    /\ prev = NoPoly
    /\ builder = NoBuilder
    /\ chain = NoChain
    /\ built = NotBuilt
    /\ vec = NoVec
    /\ origin = NoOrigin

\* thread t is between calls and may make one more
CanCall(t) ==
    /\ trail[1].thread[t].pc = "idle"
    /\ trail[1].calls[t] < MaxCalls

\* the process record becomes c
DftStep(c) ==
    /\ trail' = <<c>>
    /\ UNCHANGED <<poly, prev, op, fault, steps, profile, builder, chain, built, vec, origin>>

\* thread t returns from fn(arg) with result; poisoned tells whether a cache
\* the call reads was poisoned when it was made
Return(c, t, fn, arg, result, poisoned) ==
    [c EXCEPT !.thread[t] = Idle,
              !.calls[t] = c.calls[t] + 1,
              !.latest = t,
              !.last[t] = Result(fn, arg, result, poisoned)]

\* some cache is poisoned
AnyPoisoned(c) == c.root_poisoned \/ c.values_poisoned \/ c.tables_poisoned

\* reset: ROOT_OF_UNITY_TABLE.write()?.clear()
Reset ==
    \E t \in Threads :
        /\ CanCall(t)
        /\ LET c == trail[1]
           IN IF c.root_poisoned
              THEN DftStep(Return(c, t, "reset", 0, "SyncPoison", AnyPoisoned(c)))
              ELSE DftStep(Return([c EXCEPT !.root = <<>>], t, "reset", 0, "Ok", AnyPoisoned(c)))

\* initialize(m, nh): PrecomputedValues::new(m, nh) is computed while the
\* write lock of PRECOMPUTED_VALUES_TABLE is held, and panics for m = 0
Initialize ==
    \E t \in Threads, m \in {0, 4, 8} :
        /\ CanCall(t)
        /\ LET c == trail[1]
           IN IF c.values_poisoned
              THEN DftStep(Return(c, t, "initialize", m, "SyncPoison", TRUE))
              ELSE IF m = 0
              THEN DftStep(Return([c EXCEPT !.values_poisoned = TRUE], t,
                                  "initialize", m, "panic", FALSE))
              ELSE DftStep(Return([c EXCEPT !.values = c.values \cup {m}], t,
                                  "initialize", m, "Ok", FALSE))

\* precompute_table(s), its first statement reset()?
PrecomputeTableReset ==
    \E t \in Threads, s \in {1, 2} :
        /\ CanCall(t)
        /\ LET c == trail[1]
           IN IF c.root_poisoned
              THEN DftStep(Return(c, t, "precompute_table", s, "SyncPoison", TRUE))
              ELSE DftStep([c EXCEPT !.root = <<>>,
                                     !.thread[t] = [pc |-> "fill", arg |-> s]])

\* precompute_table(s), the second write lock and the s pushes
PrecomputeTableFill ==
    \E t \in Threads :
        /\ trail[1].thread[t].pc = "fill"
        /\ LET c == trail[1]
               s == c.thread[t].arg
           IN IF c.root_poisoned
              THEN DftStep(Return(c, t, "precompute_table", s, "SyncPoison", TRUE))
              ELSE DftStep(Return([c EXCEPT !.root = c.root \o RootEntries(s)], t,
                                  "precompute_table", s, "Ok", FALSE))

\* fft_forward_transform on 2^l values, the block under TABLES.write():
\* cached_m[l] is out of bounds for l > LOGM_MAX
FftForwardTransformWrite ==
    \E t \in Threads, l \in {1, LOGM_MAX, LOGM_MAX + 1} :
        /\ CanCall(t)
        /\ LET c == trail[1]
           IN IF c.tables_poisoned
              THEN DftStep(Return(c, t, "fft_forward_transform", l, "SyncPoison", TRUE))
              ELSE IF l > LOGM_MAX
              THEN DftStep(Return([c EXCEPT !.tables_poisoned = TRUE], t,
                                  "fft_forward_transform", l, "panic", FALSE))
              ELSE DftStep([c EXCEPT !.cached_m = c.cached_m \cup {l},
                                     !.thread[t] = [pc |-> "fft_read", arg |-> l]])

\* fft_forward_transform, the butterflies under TABLES.read()?
FftForwardTransformRead ==
    \E t \in Threads :
        /\ trail[1].thread[t].pc = "fft_read"
        /\ LET c == trail[1]
               l == c.thread[t].arg
           IN IF c.tables_poisoned
              THEN DftStep(Return(c, t, "fft_forward_transform", l, "SyncPoison", TRUE))
              ELSE DftStep(Return(c, t, "fft_forward_transform", l, "Ok", FALSE))

NextDft ==
    \/ Reset
    \/ Initialize
    \/ PrecomputeTableReset
    \/ PrecomputeTableFill
    \/ FftForwardTransformWrite
    \/ FftForwardTransformRead

SpecDft == InitDft /\ [][NextDft]_vars

\* C22: an accessor called on a poisoned cache returns SyncPoison, and a
\* reset() called after a poisoning returns Ok and leaves no cache poisoned
\* and the root table empty
C22_PoisonThenReset ==
    \A t \in Threads :
        LET r == trail[1].last[t]
        IN /\ (r.fn \in {"initialize", "precompute_table", "fft_forward_transform"}
               /\ r.poisoned) => r.result = "SyncPoison"
           /\ (r.fn = "reset" /\ r.poisoned /\ trail[1].latest = t)
                 => /\ r.result = "Ok"
                    /\ ~AnyPoisoned(trail[1])
                    /\ trail[1].root = <<>>

\* C30: when every thread made the one call precompute_table(s_t) and all
\* have returned, the root table holds the entries of one of the calls
C30_TableOfOneCall ==
    (\A t \in Threads :
        /\ trail[1].thread[t].pc = "idle"
        /\ trail[1].calls[t] = 1
        /\ trail[1].last[t].fn = "precompute_table"
        /\ trail[1].last[t].result = "Ok")
    => \E t \in Threads : trail[1].root = RootEntries(trail[1].last[t].arg)

-----------------------------------------------------------------------------
(* number_theoretic_transform::forward_transform_iterative (transform.rs).  *)
(* trail holds the one record of a call: the modulus, the input, the table  *)
(* of powers of the root, and the output once the call has returned.        *)

\* one pass `for logm`: the butterflies of a pass act on disjoint pairs
\* (index_even, index_odd = index_even + limit), so the pass is given entry
\* by entry.  An entry is the pair <<value, overflowed>>: `+` and `+=` on
\* Uint are checked.
butterfly_pass(output, table, q, n, logn, logm) ==
    LET limit == Pow2(logm - 1)
        omega(i) == table[i * Pow2(logn - logm) + 1]
    IN [p \in 1..n |->
          LET lo == (p - 1) % Pow2(logm)
          IN IF lo < limit
             THEN LET omega_factor == mul_mod(omega(lo), output[p + limit], q)
                      even_val == output[p]
                      lifted == IF even_val < omega_factor THEN even_val + q ELSE even_val
                  IN <<(lifted + omega_factor) % Word,
                       lifted >= Word \/ lifted + omega_factor >= Word>>
             ELSE LET omega_factor == mul_mod(omega(lo - limit), output[p], q)
                      even_val == output[p - limit]
                      odd_val == even_val + omega_factor
                  IN <<IF odd_val % Word >= q THEN (odd_val % Word) - q ELSE odd_val % Word,
                       odd_val >= Word>>]

RECURSIVE butterfly_passes(_, _, _, _, _, _)
\* for logm in 1..=logn
butterfly_passes(output, table, q, n, logn, logm) ==
    IF logm > logn THEN NttOk(output)
    ELSE LET pass == butterfly_pass(output, table, q, n, logn, logm)
             next == [p \in 1..n |-> pass[p][1]]
         IN IF \E p \in 1..n : pass[p][2]
            THEN NttPanic("attempt to add with overflow", output)
            ELSE butterfly_passes(next, table, q, n, logn, logm + 1)

\* forward_transform_iterative(input, root_of_unity_table), input of modulus q
forward_transform_iterative(input, root_of_unity_table, q) ==
    LET n == Len(input)
        msb == BitLen(n - 1)
        output == [i \in 1..n |-> input[reverse_bits(i - 1, msb) + 1]]
    IN butterfly_passes(output, root_of_unity_table, q, n, msb, 1)

\* lengths and prime moduli of the transformed vectors
TransformLengths == {1, 2, 4}
TransformModuli == {3, 5}

\* the principal n-th roots of unity modulo the prime q
PrincipalRoots(n, q) ==
    { w \in 1..(q - 1) : /\ PowMod(w, n, q) = 1
                         /\ \A e \in 1..(n - 1) : PowMod(w, e, q) # 1 }

\* table[i] = w^i
PowerTable(w, n, q) == [i \in 1..n |-> PowMod(w, i - 1, q)]

NoTransform == [q |-> 1, w |-> 0, input |-> <<>>, table |-> <<>>, output |-> <<>>, pc |-> "none"]

InitTransform ==
    /\ trail = <<NoTransform>>
    /\ fault = "none"
    /\ steps = 0
    /\ op = OpOf("none", 0, NoPoly)
    /\ profile \in {"debug", "release"}
    /\ poly = NoPoly
    /\ prev = NoPoly
    /\ builder = NoBuilder
    /\ chain = NoChain
    /\ built = NotBuilt
    /\ vec = NoVec
    /\ origin = NoOrigin

\* one call of forward_transform_iterative on entries below q and the table
\* of the powers of a principal n-th root
ForwardTransformIterative ==
    /\ trail[1].pc = "none"
    /\ \E q \in TransformModuli, n \in TransformLengths :
         \E w \in PrincipalRoots(n, q), input \in [1..n -> 0..(q - 1)] :
            LET table == PowerTable(w, n, q)
                r == forward_transform_iterative(input, table, q)
            IN /\ trail' = <<[q |-> q, w |-> w, input |-> input, table |-> table,
                              output |-> r.values, pc |-> "returned"]>>
               /\ fault' = r.fault
    /\ op' = OpOf("forward_transform_iterative", 0, NoPoly)
    /\ steps' = steps + 1
    /\ UNCHANGED <<poly, prev, profile, builder, chain, built, vec, origin>>

NextTransform == ForwardTransformIterative

SpecTransform == InitTransform /\ [][NextTransform]_vars

RECURSIVE DftSum(_, _, _, _, _)
\* the sum over j < n of input[j] * w^(j*k), modulo q
DftSum(input, w, k, q, n) ==
    IF n = 0 THEN 0
    ELSE (DftSum(input, w, k, q, n - 1) + input[n] * PowMod(w, (n - 1) * k, q)) % q

\* C23: for a power-of-two length n, entries below q and table[i] = w^i of a
\* principal n-th root w, forward_transform_iterative returns without a fault
\* the values output[k] = sum over j of input[j] * w^(j*k) mod q, each below q
C23_ForwardIsDft ==
    trail[1].pc = "returned"
    => /\ fault = "none"
       /\ \A k \in 1..Len(trail[1].input) :
             /\ trail[1].output[k] < trail[1].q
             /\ trail[1].output[k]
                  = DftSum(trail[1].input, trail[1].w, k - 1, trail[1].q, Len(trail[1].input))

-----------------------------------------------------------------------------
(* The generator test, the modular power and the prime search of utils.rs,  *)
(* called on their own.  The random draws of fermat and miller_rabin are    *)
(* choices: a test is given by the set of answers it can return.            *)

RECURSIVE trailing_ones(_)
\* u64::trailing_ones
trailing_ones(d) == IF d % 2 = 1 THEN 1 + trailing_ones(d \div 2) ELSE 0

\* fermat(candidate): r = random % candidate + 1, mod_pow(r, candidate - 1,
\* candidate) == 1.  The answers over r: "true", "false", "panic".
fermat(candidate, prof) ==
    { LET t == mod_pow(r, candidate - 1, candidate, prof)
      IN IF t.fault # "none" THEN "panic" ELSE IF t.val = 1 THEN "true" ELSE "false"
    : r \in 1..candidate }

RECURSIVE miller_rabin_squares(_, _, _, _)
\* for _ in 1..trials - 1 { test = mod_pow(test, 2, candidate); ... }: "false"
\* for return false (also after the last round), "break" for break 'next_base
miller_rabin_squares(test, rounds, candidate, prof) ==
    IF rounds = 0 THEN "false"
    ELSE LET t == mod_pow(test, 2, candidate, prof)
         IN IF t.fault # "none" THEN "panic"
            ELSE IF t.val = 1 THEN "false"
            ELSE IF t.val = candidate - 1 THEN "break"
            ELSE miller_rabin_squares(t.val, rounds - 1, candidate, prof)

\* the body of 'next_base for one base: "continue", "false", "break", "panic"
miller_rabin_base(base, d, trials, candidate, prof) ==
    LET test == mod_pow(base, d, candidate, prof)
    IN IF test.fault # "none" THEN "panic"
       ELSE IF test.val = 1 \/ test.val = candidate - 1 THEN "continue"
       ELSE miller_rabin_squares(test.val, trials - 2, candidate, prof)

\* miller_rabin(candidate): LIMIT = 12 bases random % cand_m1 + 1, tried in
\* turn.  It returns true when every base continues or a base leaves the
\* loop by break 'next_base, false when a base returns false.
miller_rabin(candidate, prof) ==
    IF candidate < 3 THEN {"false"}
    ELSE LET cand_m1 == candidate - 1
             ones == trailing_ones(cand_m1)
             d == IF ones > 0 THEN cand_m1 \div Pow2(ones) ELSE cand_m1
             trials == IF ones < 5 THEN 5 ELSE ones
             ends == { miller_rabin_base(base, d, trials, candidate, prof) : base \in 1..cand_m1 }
         IN { "true" : e \in ends \cap {"continue", "break"} }
            \cup { "false" : e \in ends \cap {"false"} }
            \cup { "panic" : e \in ends \cap {"panic"} }

\* while !fermat(x) && !miller_rabin(x): "stop", "go", "panic" as it can turn out
prime_loop_test(x, prof) ==
    LET f == fermat(x, prof)
        r == IF "false" \in f THEN miller_rabin(x, prof) ELSE {}
    IN { "stop" : e \in (f \cup r) \cap {"true"} }
       \cup { "go" : e \in r \cap {"false"} }
       \cup { "panic" : e \in (f \cup r) \cap {"panic"} }

RECURSIVE next_prime_loop(_, _, _)
\* while ... { i ^= 6; x += i }; x.  The values it can return.
next_prime_loop(x, i, prof) ==
    LET t == prime_loop_test(x, prof)
        j == IF i = 2 THEN 4 ELSE 2
    IN { Val(x) : e \in t \cap {"stop"} }
       \cup { Fail("attempt to multiply with overflow") : e \in t \cap {"panic"} }
       \cup IF "go" \notin t THEN {}
            ELSE IF x + j >= Word /\ prof = "debug" THEN {Fail("attempt to add with overflow")}
            ELSE next_prime_loop((x + j) % Word, j, prof)

\* next_prime(candidate)
next_prime(candidate, prof) ==
    IF candidate <= 2 THEN {Val(2)}
    ELSE IF candidate = 3 THEN {Val(3)}
    ELSE IF candidate <= 5 THEN {Val(5)}
    ELSE LET k == candidate \div 6
             o == IF candidate % 6 < 2 THEN 1 ELSE 5
         IN next_prime_loop(6 * k + o, (3 + o) \div 2, prof)

RECURSIVE previous_prime_loop(_, _, _)
\* while ... { x -= i; i ^= 6 }; x.  The values it can return.
previous_prime_loop(x, i, prof) ==
    LET t == prime_loop_test(x, prof)
    IN { Val(x) : e \in t \cap {"stop"} }
       \cup { Fail("attempt to multiply with overflow") : e \in t \cap {"panic"} }
       \cup IF "go" \notin t THEN {}
            ELSE IF x < i THEN {Fail("attempt to subtract with overflow")}
            ELSE previous_prime_loop(x - i, IF i = 2 THEN 4 ELSE 2, prof)

\* utils::previous_prime(candidate)
utils_previous_prime(candidate, prof) ==
    IF candidate <= 1 THEN {Val(0)}
    ELSE IF candidate = 2 THEN {Val(2)}
    ELSE IF candidate <= 4 THEN {Val(3)}
    ELSE LET x == IF candidate % 2 = 0 THEN candidate - 1 ELSE candidate
             o == IF x % 6 = 5 THEN 5 ELSE 1
             i == IF x % 6 = 5 THEN 4 ELSE 2
         IN previous_prime_loop((x \div 6) * 6 + o, i, prof)

\* the arguments of mod_pow: small and largest bases and exponents
ModPowBases == 0..20 \cup {Word - 1}
ModPowExponents == 0..8 \cup {Word - 1}

\* the candidates of the prime searches
PrimeCandidates == 0..26

\* is_generator(generator, modulus) for a prime modulus and 1 <= generator < modulus
IsGenerator ==
    /\ trail = <<>>
    /\ \E modulus \in { q \in 3..MaxModulus : IsPrime(q) } :
        \E generator \in 1..(modulus - 1) :
            LET r == is_generator(generator, modulus, profile)
            IN UtilCall("is_generator", generator, modulus, r.val, r.fault, 0, 0)

\* mod_pow(base, exponent, modulus): trail[1].a is base, b is modulus,
\* quotient is the exponent
ModPow ==
    /\ trail = <<>>
    /\ \E base \in ModPowBases, exponent \in ModPowExponents, modulus \in 1..MaxModulus :
            LET r == mod_pow(base, exponent, modulus, profile)
            IN UtilCall("mod_pow", base, modulus, r.val, r.fault, exponent, 0)

\* next_prime(candidate), one of its outcomes
NextPrime ==
    /\ trail = <<>>
    /\ \E candidate \in PrimeCandidates :
        \E r \in next_prime(candidate, profile) :
            UtilCall("next_prime", candidate, 0, r.val, r.fault, 0, 0)

\* previous_prime(candidate), one of its outcomes
PreviousPrime ==
    /\ trail = <<>>
    /\ \E candidate \in PrimeCandidates :
        \E r \in utils_previous_prime(candidate, profile) :
            UtilCall("previous_prime", candidate, 0, r.val, r.fault, 0, 0)

NextNumbers == IsGenerator \/ ModPow \/ NextPrime \/ PreviousPrime

SpecNumbers == InitUtils /\ [][NextNumbers]_vars

\* C24: for a prime q and g in 1..q-1, is_generator(g, q) returns, and returns
\* true exactly when g^((q-1)/r) mod q differs from 1 for every prime factor r
\* of q - 1 (false also when only the last factor fails the test)
C24_GeneratorTest ==
    (trail # <<>> /\ trail[1].name = "is_generator")
    => LET g == trail[1].a
           q == trail[1].b
           factors == Factors(q - 1)
       IN /\ fault = "none"
          /\ trail[1].val = (\A i \in 1..Len(factors) : PowMod(g, (q - 1) \div factors[i], q) # 1)

\* C25: for a candidate >= 2, whatever the random bases, previous_prime
\* returns the largest prime <= candidate and next_prime the smallest prime
\* >= candidate
C25_NearestPrime ==
    (trail # <<>> /\ trail[1].name \in {"next_prime", "previous_prime"} /\ trail[1].a >= 2)
    => LET c == trail[1].a
           v == trail[1].val
       IN /\ fault = "none"
          /\ IsPrime(v)
          /\ trail[1].name = "next_prime"
                => (v >= c /\ \A p \in c..v : IsPrime(p) => p = v)
          /\ trail[1].name = "previous_prime"
                => (v <= c /\ \A p \in v..c : IsPrime(p) => p = v)

\* C26: mod_pow(base, exponent, modulus) returns base^exponent mod modulus
\* without a fault for every base and exponent of the word and every modulus
\* from 2 to the MAX_MODULUS_SIZE-bit ceiling, and 0 for the modulus 1
C26_ModPowExact ==
    (trail # <<>> /\ trail[1].name = "mod_pow")
    => /\ fault = "none"
       /\ trail[1].val = PowMod(trail[1].a, trail[1].quotient, trail[1].b)
       /\ trail[1].b = 1 => trail[1].val = 0

-----------------------------------------------------------------------------
(* The copies of the working modulus held by a Poly *)

\* C27: when switch_modulus has returned, however many operations came before
\* it, the Poly's three copies of the modulus agree: params.ciphertext_modulus,
\* the modulus of its values (VecMod params) and monty_params_ciphertext_modulus
C27_ModulusCopiesAgree ==
    (op.name = "switch_modulus" /\ fault = "none")
    => /\ poly.params.ciphertext_modulus = poly.values.params
       /\ poly.params.ciphertext_modulus = poly.monty_params_ciphertext_modulus

-----------------------------------------------------------------------------
(* Specification SpecScalar: a scalar is added to a Poly and the same scalar *)
(* is subtracted again.  trail holds the calls made, each with the Poly it   *)
(* was made on.                                                              *)

ScalarCall(name, c, r) ==
    /\ fault = "none"
    /\ poly' = r.poly
    /\ fault' = r.fault
    /\ prev' = poly
    /\ op' = OpOf(name, c, NoPoly)
    /\ steps' = steps + 1
    /\ trail' = Append(trail, [name |-> name, c |-> c, self |-> poly])
    /\ UNCHANGED <<profile, builder, chain, built, vec, origin>>

\* p += c for a scalar c below the modulus
ScalarAdd ==
    /\ trail = <<>>
    /\ \E c \in 0..(poly.params.ciphertext_modulus - 1) :
          ScalarCall("add_scalar", c, poly_add_scalar(poly, c))

\* p -= c for the scalar just added
ScalarSub ==
    /\ Len(trail) = 1
    /\ ScalarCall("sub_scalar", trail[1].c, poly_sub_scalar(poly, trail[1].c))

NextScalar == ScalarAdd \/ ScalarSub

SpecScalar == InitPoly /\ [][NextScalar]_vars

\* C28: for every Poly p, of either format, and every scalar c below the
\* modulus, (p + c) - c completes and is p again
C28_AddThenSubScalar ==
    Len(trail) = 2
    => /\ fault = "none"
       /\ poly = trail[1].self

-----------------------------------------------------------------------------
(* LatticeParams::find_ring_dimension (params.rs).  BY_LOG_Q is a HashMap   *)
(* keyed by max_log_q; the order in which iter() yields its entries is not  *)
(* fixed, so a call is made on one of the orders of the entries.            *)

LatticeEntry(max_log_q, ring_dimension) ==
    [max_log_q |-> max_log_q, ring_dimension |-> ring_dimension]

\* the entries of LATTICE_PARAMS for DistributionType::Uniform and the
\* security levels HeStd128Classic and HeStd256Classic, as BY_LOG_Q holds them
BY_LOG_Q(security_level) ==
    IF security_level = "HeStd128Classic"
    THEN { LatticeEntry(29, 1024), LatticeEntry(56, 2048), LatticeEntry(111, 4096),
           LatticeEntry(220, 8192), LatticeEntry(440, 16384), LatticeEntry(880, 32768) }
    ELSE { LatticeEntry(16, 1024), LatticeEntry(31, 2048), LatticeEntry(60, 4096),
           LatticeEntry(120, 8192), LatticeEntry(239, 16384), LatticeEntry(478, 32768) }

\* the orders in which iter() can yield the entries of a map
IterOrders(map) ==
    { s \in [1..Cardinality(map) -> map] : \A i, j \in 1..Cardinality(map) : s[i] = s[j] => i = j }

RECURSIVE find_ring_dimension_loop(_, _, _, _, _)
\* for (&log_q, &lattice) in ...iter() { if current_log_q <= log_q &&
\* current_log_q > prev { return lattice.ring_dimension } prev = log_q;
\* n = lattice.ring_dimension }; n * 2
find_ring_dimension_loop(entries, i, current_log_q, prev_log_q, n) ==
    IF i > Len(entries) THEN n * 2
    ELSE IF current_log_q <= entries[i].max_log_q /\ current_log_q > prev_log_q
    THEN entries[i].ring_dimension
    ELSE find_ring_dimension_loop(entries, i + 1, current_log_q,
                                  entries[i].max_log_q, entries[i].ring_dimension)

\* find_ring_dimension on the entries in the order iter() yields them
find_ring_dimension(entries, current_log_q) ==
    find_ring_dimension_loop(entries, 1, current_log_q, 0, 0)

\* the values of current_log_q tried: around the entries and beyond the last
LogQChoices == {1, 16, 17, 29, 30, 56, 300, 478, 880, 881}

\* one call of find_ring_dimension(Uniform, security_level, current_log_q)
FindRingDimension ==
    /\ trail = <<>>
    /\ \E security_level \in {"HeStd128Classic", "HeStd256Classic"}, current_log_q \in LogQChoices :
        \E entries \in IterOrders(BY_LOG_Q(security_level)) :
            trail' = <<[security_level |-> security_level, current_log_q |-> current_log_q,
                        entries |-> entries,
                        val |-> find_ring_dimension(entries, current_log_q)]>>
    /\ op' = OpOf("find_ring_dimension", 0, NoPoly)
    /\ UNCHANGED <<poly, prev, fault, steps, profile, builder, chain, built, vec, origin>>

NextLattice == FindRingDimension

SpecLattice == InitGaussian /\ [][NextLattice]_vars

\* the ring dimension of the entry with the smallest max_log_q >= log_q, and
\* twice the largest ring dimension when there is no such entry
TabulatedRingDimension(map, log_q) ==
    LET fit == { e \in map : e.max_log_q >= log_q }
    IN IF fit = {}
       THEN 2 * (CHOOSE e \in map : \A o \in map : o.ring_dimension <= e.ring_dimension).ring_dimension
       ELSE (CHOOSE e \in fit : \A o \in fit : e.max_log_q <= o.max_log_q).ring_dimension

\* C29: find_ring_dimension returns the ring dimension of the entry with the
\* smallest max_log_q >= log_q, twice the largest tabulated ring dimension
\* when log_q exceeds every entry, in whatever order the map yields its entries
C29_RingDimensionOfTable ==
    trail # <<>>
    => trail[1].val = TabulatedRingDimension(BY_LOG_Q(trail[1].security_level),
                                             trail[1].current_log_q)

=============================================================================
